---- MODULE Spec2Model ----
(***************************************************************************)
(* Resumable streaming ingestion of newline-delimited JSON files           *)
(* (optimized_loader_nd.py with checkpoint_manager.py).                    *)
(*                                                                         *)
(* One process ("invocation") runs main(): it loads the checkpoint, then   *)
(* calls process_file_with_checkpoint for each configured file.  SIGINT /  *)
(* SIGTERM run signal_handler, interpreter exit runs atexit_handler.  The  *)
(* checkpoint file and the store survive the process; a later invocation   *)
(* starts from them.                                                       *)
(***************************************************************************)
EXTENDS Integers, Sequences, FiniteSets, Bags, TLC

(***************************************************************************)
(* Bounds of the model.                                                    *)
(***************************************************************************)
\* number of input lines, all configured files together
MaxLines == 3
\* invocations of the program in one behaviour (the first and its re-runs)
MaxRuns == 2

(***************************************************************************)
(* Cadences of the pipeline, scaled down so that every one of them occurs  *)
(* inside a file of MaxLines lines.  The source values are in the comment  *)
(* of each.                                                                *)
(***************************************************************************)
\* optimized_loader_nd.py:326   total_read % 1000 == 0
MemCheckEvery == 2
\* optimized_loader_nd.py:289   chunk_size = 10000
chunk_size == 2
\* optimized_loader_nd.py:386   len(insert_batch) >= 2000
InsertBatchSize == 2
\* optimized_loader_nd.py:357   total_read % 50000 == 0
StatusEvery == 1
\* optimized_loader_nd.py:364   total_read - last_checkpoint_line >= 100000
\* (twice the status cadence, as in the source)
AutoSaveGap == 2 * StatusEvery
\* optimized_loader_nd.py:330   check_memory_limit(88.0)
MemoryLimit == 88
\* config_nd.MEMORY_CRITICAL_THRESHOLD, the critical threshold of the configuration
MEMORY_CRITICAL_THRESHOLD == 85
\* values of psutil.virtual_memory().percent: above the threshold of the
\* configuration but below the limit, at the limit, and above it
MemSamples == {86, 88, 89}

(***************************************************************************)
(* Input files.  A line is one of: "ok" (decodes, and parse_product_item   *)
(* keeps it), "rej" (decodes, parse_product_item returns None), "bad"      *)
(* (json.loads raises JSONDecodeError).                                    *)
(***************************************************************************)
Kinds == {"ok", "rej", "bad"}

\* config_nd.JSON_FILES, in order
JSON_FILES == <<"f1", "f2">>

\* a path that is not in JSON_FILES (a checkpoint left by a run under an
\* earlier configuration)
OtherFile == "f0"

\* length of a line in bytes, len(line.encode('utf-8'))
LineBytes(k) == IF k = "ok" THEN 2 ELSE 1

FileContents == UNION {[1..n -> Kinds] : n \in 0..MaxLines}

None == "None"
\* a local variable that has not been assigned yet
Unbound == -1
\* exit status of a process that has not exited
Running == -1

\* checkpoint.json does not exist / load_checkpoint returned None
NoCheckpoint == [file_path |-> None, byte_position |-> 0, line_number |-> 0,
                 inserted_count |-> 0, reason |-> None]

\* checkpoint_manager.py:15   CheckpointManager.checkpoint_file
checkpoint_file == "checkpoint.json"
\* checkpoint_manager.py:45
temp_file == "checkpoint.json.tmp"

\* number of writes the JSON text of a checkpoint reaches its file in
JsonPieces == 2

\* a file: the checkpoint whose JSON text it holds, and how much of the text
Absent == [data |-> NoCheckpoint, written |-> 0]

VARIABLES
    lines,              \* lines[f]: the content of file f
    disk,               \* checkpoint.json: NoCheckpoint, or the checkpoint it holds
    store,              \* records handed to bulk insert: set of <<file, line index>>
    run,                \* number of the current invocation
    pc,                 \* position of the invocation
    exit_status,        \* exit status of the invocation, Running while it runs
    SHOULD_STOP,
    CURRENT_PROGRESS,
    checkpoint_manager, \* TRUE once main() has created the CheckpointManager
    checkpoint,         \* what load_checkpoint returned at startup
    start_index, file_index,
    start_byte, start_line,   \* arguments of the current process_file_with_checkpoint call
    stats, chunk, insert_batch, last_checkpoint_line, current_byte_position,
    nxt,                \* number of lines in front of the file pointer
    parsed,             \* line indices handed to json.loads in the current call
    outcome,            \* outcome[f]: how the call for file f ended in this invocation
    cleared,            \* clear_checkpoint was called in this invocation
    signal_received,    \* signal_handler ended this invocation with sys.exit(0)
    usage,              \* the last value check_memory_limit sampled
    flushes,            \* sizes of the batches the current call handed to bulk insert
    fs,                 \* save_checkpoint step by step: the files it touches
    save_pc,            \* save_checkpoint step by step: its position
    new_checkpoint,     \* the checkpoint the last save wrote or is writing
    previous,           \* checkpoint.json when the save in progress began
    par_pc,             \* optimized_loader.py: position of process_single_file_parallel
    par_file,           \* optimized_loader.py: index of the file main() is at
    future_to_chunk,    \* the futures of the submitted chunks, by chunk number
    insert_batch_data,  \* the batch buffer: line indices of the records in it
    inserting,          \* the processes with a bulk insert in progress
    file_stats,         \* the counters of the call for the file
    handed,             \* the bag of the records handed to fast_insert_batch for the file
    ins_pc,             \* bulk insert with fallback: position of the call
    ins_loader,         \* the loader whose insert function is called
    batch_data,         \* the batch handed to the insert function
    table,              \* indices of the records of the batch committed to the table
    session_new,        \* indices of the records added to the session, not committed
    session_failed,     \* a flush of the session failed and no rollback followed
    ins_i,              \* the record the fallback loop is at
    successful,         \* the counter of the fallback loop
    bulk_failed,        \* the bulk insert of the call raised
    ins_returned,       \* what the call returned, Running while it runs
    tr_pc,              \* review transform: position of the call
    tr_loader,          \* the loader whose transform is called
    item,               \* the decoded line handed to the transform
    record,             \* what the transform returned for it
    dir,                \* directory: dir[p] is the inode path p names, 0 for none
    inodes,             \* inodes[n]: the pieces of text in the file with inode n
    saves,              \* saves[w]: the call of save_checkpoint made by w
    current_progress    \* CheckpointManager.current_progress

vars == <<lines, disk, store, run, pc, exit_status, SHOULD_STOP, CURRENT_PROGRESS,
          checkpoint_manager, checkpoint, start_index, file_index, start_byte,
          start_line, stats, chunk, insert_batch, last_checkpoint_line,
          current_byte_position, nxt, parsed, outcome, cleared,
          signal_received, usage, flushes, fs, save_pc, new_checkpoint, previous,
          par_pc, par_file, future_to_chunk, insert_batch_data, inserting,
          file_stats, handed, ins_pc, ins_loader, batch_data, table, session_new,
          session_failed, ins_i, successful, bulk_failed, ins_returned, tr_pc,
          tr_loader, item, record, dir, inodes, saves, current_progress>>

\* the state of save_checkpoint taken step by step
savevars == <<fs, save_pc, new_checkpoint, previous>>
\* the state of the parallel pipeline of optimized_loader.py
parvars == <<par_pc, par_file, future_to_chunk, insert_batch_data, inserting,
             file_stats, handed>>
\* the state of the other loaders
\* the state of a call of a bulk insert function
insvars == <<ins_pc, ins_loader, batch_data, table, session_new, session_failed,
             ins_i, successful, bulk_failed, ins_returned>>
\* the state of a call of the review transform
trvars == <<tr_pc, tr_loader, item, record>>
\* the state of save_checkpoint calls cut into by the signal handler
nestvars == <<dir, inodes, saves, current_progress>>
auxvars == <<parvars, insvars, trvars, nestvars>>

Files == {JSON_FILES[i] : i \in 1..Len(JSON_FILES)}

\* 0-based line i of file f
Line(f, i) == lines[f][i + 1]
NumLines(f) == Len(lines[f])

RECURSIVE BytesBefore(_, _)
\* byte offset of the start of 0-based line n of file f
BytesBefore(f, n) == IF n = 0 THEN 0 ELSE BytesBefore(f, n - 1) + LineBytes(Line(f, n - 1))

\* as SeekAndReadline, but with a seek at or behind the end of the file
\* landing at its start
SeekAndReadlineWrapping(f, b) ==
    IF b >= BytesBefore(f, NumLines(f)) THEN 0
    ELSE CHOOSE j \in 1..NumLines(f) :
            /\ BytesBefore(f, j) > b
            /\ BytesBefore(f, j - 1) <= b

\* f.seek(b); f.readline(): the number of lines in front of the file pointer
\* afterwards (the line holding byte b is consumed to its end)
SeekAndReadline(f, b) ==
    IF b >= BytesBefore(f, NumLines(f)) THEN NumLines(f)
    ELSE CHOOSE j \in 1..NumLines(f) :
            /\ BytesBefore(f, j) > b
            /\ BytesBefore(f, j - 1) <= b

(***************************************************************************)
(* checkpoint_manager.py                                                   *)
(***************************************************************************)
\* as save_checkpoint, but with the two cursor arguments taken for each other
save_checkpoint_swapped(file_path, byte_position, line_number, inserted_count, reason) ==
    [file_path |-> file_path, byte_position |-> line_number,
     line_number |-> byte_position, inserted_count |-> inserted_count,
     reason |-> reason]

\* the record save_checkpoint writes over checkpoint.json
save_checkpoint(file_path, byte_position, line_number, inserted_count, reason) ==
    [file_path |-> file_path, byte_position |-> byte_position,
     line_number |-> line_number, inserted_count |-> inserted_count,
     reason |-> reason]

\* the content of a file that json.load rejects (JSONDecodeError)
Unparseable == [NoCheckpoint EXCEPT !.reason = "JSONDecodeError"]

\* checkpoint.get(k, default)
Get(c, k, default) == IF k \in DOMAIN c THEN c[k] ELSE default

required_fields == {"file_path", "byte_position", "line_number", "inserted_count"}

\* as _validate_checkpoint, but without the checks of the values
_validate_fields_only(c) == required_fields \subseteq DOMAIN c

_validate_checkpoint(c) ==
    /\ required_fields \subseteq DOMAIN c
    /\ c.byte_position >= 0
    /\ c.line_number >= 0

\* what load_checkpoint returns for the file content d: every exception,
\* JSONDecodeError included, is caught and None returned
load_checkpoint(d) ==
    IF d = NoCheckpoint THEN NoCheckpoint
    ELSE IF d = Unparseable THEN NoCheckpoint
    ELSE IF ~_validate_checkpoint(d) THEN NoCheckpoint
    ELSE d

\* checkpoint.json after clear_checkpoint
clear_checkpoint(d) == NoCheckpoint

(***************************************************************************)
(* optimized_loader_nd.py: helpers                                         *)
(***************************************************************************)
InitialProgress == [file_path |-> None, byte_position |-> 0, line_number |-> 0,
                    inserted_count |-> 0]

\* as emergency_save_checkpoint, but with the cursor taken from the loop's
\* counter instead of the progress mirror
emergency_save_from_counter(reason) ==
    IF checkpoint_manager /\ CURRENT_PROGRESS.file_path # None
    THEN save_checkpoint(CURRENT_PROGRESS.file_path, CURRENT_PROGRESS.byte_position,
                         stats.total_read, CURRENT_PROGRESS.inserted_count, reason)
    ELSE disk

\* checkpoint.json after emergency_save_checkpoint(reason)
emergency_save_checkpoint(reason) ==
    IF checkpoint_manager /\ CURRENT_PROGRESS.file_path # None
    THEN save_checkpoint(CURRENT_PROGRESS.file_path, CURRENT_PROGRESS.byte_position,
                         CURRENT_PROGRESS.line_number, CURRENT_PROGRESS.inserted_count,
                         reason)
    ELSE disk

check_memory_limit(sample, limit_percent) == sample > limit_percent

\* process_chunk: the lines of the chunk parse_product_item keeps
process_chunk(f, c) == SelectSeq(c, LAMBDA i : Line(f, i) = "ok")

SeqToSet(s) == {s[i] : i \in 1..Len(s)}
\* the elements of a sequence with their numbers of occurrences
SeqToBag(s) == [x \in SeqToSet(s) |-> Cardinality({k \in 1..Len(s) : s[k] = x})]

\* the store after fast_insert_batch_products(batch) for file f
fast_insert_batch_products(f, batch) == store \cup {<<f, i>> : i \in SeqToSet(batch)}

NoStats == [total_read |-> 0, total_processed |-> 0, total_inserted |-> 0]

CurFile == JSON_FILES[file_index]

(***************************************************************************)
(* Initial state: the program has not run; checkpoint.json is absent or    *)
(* was left by a run under another configuration.                          *)
(***************************************************************************)
ProcessStart ==
    /\ pc = "start"
    /\ exit_status = Running
    /\ SHOULD_STOP = FALSE
    /\ CURRENT_PROGRESS = InitialProgress
    /\ checkpoint_manager = FALSE
    /\ checkpoint = NoCheckpoint
    /\ start_index = 1
    /\ file_index = 1
    /\ start_byte = 0
    /\ start_line = 0
    /\ stats = NoStats
    /\ chunk = <<>>
    /\ insert_batch = <<>>
    /\ last_checkpoint_line = 0
    /\ current_byte_position = Unbound
    /\ nxt = 0
    /\ parsed = {}
    /\ outcome = [f \in Files |-> "none"]
    /\ cleared = FALSE
    /\ signal_received = FALSE
    /\ usage = 0
    /\ flushes = <<>>

RECURSIVE TotalLines(_, _)
TotalLines(g, n) == IF n = 0 THEN 0 ELSE TotalLines(g, n - 1) + Len(g[JSON_FILES[n]])

\* the contents of the configured files
FileSets == {g \in [Files -> FileContents] : TotalLines(g, Len(JSON_FILES)) <= MaxLines}

InitialDisks == {NoCheckpoint, save_checkpoint(OtherFile, 1, 1, 0, "error")}

SaveIdle ==
    /\ fs = [p \in {checkpoint_file, temp_file} |-> Absent]
    /\ save_pc = "idle"
    /\ new_checkpoint = NoCheckpoint
    /\ previous = NoCheckpoint

\* optimized_loader.py is not running
ParIdle ==
    /\ par_pc = "idle"
    /\ par_file = 0
    /\ future_to_chunk = << >>
    /\ insert_batch_data = << >>
    /\ inserting = {}
    /\ file_stats = NoStats
    /\ handed = EmptyBag

\* no insert function has been called
InsIdle ==
    /\ ins_pc = "idle"
    /\ ins_loader = None
    /\ batch_data = << >>
    /\ table = {}
    /\ session_new = {}
    /\ session_failed = FALSE
    /\ ins_i = 0
    /\ successful = 0
    /\ bulk_failed = FALSE
    /\ ins_returned = Running

\* the transform returned no record
NoRecord == [returned |-> None]

\* no review transform has been called
TrIdle ==
    /\ tr_pc = "idle"
    /\ tr_loader = None
    /\ item = << >>
    /\ record = NoRecord

\* the callers of save_checkpoint: the main loop, signal_handler and
\* atexit_handler
Savers == {"main", "handler", "atexit"}
\* no call of save_checkpoint by the caller
\* (previous: checkpoint.json and the progress in memory when the call began)
NoSave == [pc |-> "none", checkpoint |-> NoCheckpoint, f |-> 0, buffered |-> 0,
           result |-> None,
           previous |-> [content |-> << >>, progress |-> InitialProgress]]

\* no save_checkpoint call is followed through the file system
NestIdle ==
    /\ dir = [p \in {checkpoint_file, temp_file} |-> 0]
    /\ inodes = << >>
    /\ saves = [w \in Savers |-> NoSave]
    /\ current_progress = InitialProgress

\* the other loaders are not running
AuxIdle == ParIdle /\ InsIdle /\ TrIdle /\ NestIdle

Init ==
    /\ lines \in FileSets
    /\ disk \in InitialDisks
    /\ store = {}
    /\ run = 1
    /\ ProcessStart
    /\ SaveIdle
    /\ AuxIdle


(***************************************************************************)
(* main(): startup                                                         *)
(***************************************************************************)
resume_from_checkpoint == checkpoint # NoCheckpoint

\* main, lines 531-545: the index of the checkpoint's file in the list, or
\* the first file when the loop finds none
IndexOfFile(c) ==
    IF c # NoCheckpoint /\ \E i \in 1..Len(JSON_FILES) : JSON_FILES[i] = c.file_path
    THEN CHOOSE i \in 1..Len(JSON_FILES) : JSON_FILES[i] = c.file_path
    ELSE 1

Startup ==
    /\ pc = "start"
    /\ checkpoint_manager' = TRUE
    /\ checkpoint' = load_checkpoint(disk)
    /\ start_index' = IndexOfFile(checkpoint')
    /\ file_index' = start_index'
    /\ pc' = "call"
    /\ UNCHANGED <<flushes, lines, disk, store, run, exit_status, SHOULD_STOP, CURRENT_PROGRESS,
                   start_byte, start_line, stats, chunk, insert_batch,
                   last_checkpoint_line, current_byte_position, nxt, parsed, outcome,
                   cleared, signal_received, usage, savevars, auxvars>>

\* main, lines 557-558
current_start_byte ==
    IF resume_from_checkpoint /\ file_index = start_index
    THEN checkpoint.byte_position
    ELSE 0
current_start_line ==
    IF resume_from_checkpoint /\ file_index = start_index
    THEN checkpoint.line_number
    ELSE 0

\* main calls process_file_with_checkpoint, which runs to its try statement
CallProcessFile ==
    /\ pc = "call"
    /\ start_byte' = current_start_byte
    /\ start_line' = current_start_line
    /\ stats' = NoStats
    /\ CURRENT_PROGRESS' = [file_path |-> CurFile, byte_position |-> start_byte',
                            line_number |-> start_line',
                            inserted_count |-> stats'.total_inserted]
    /\ chunk' = <<>>
    /\ insert_batch' = <<>>
    /\ last_checkpoint_line' = 0
    /\ current_byte_position' = Unbound
    /\ nxt' = 0
    /\ parsed' = {}
    /\ flushes' = <<>>
    /\ pc' = "open"
    /\ UNCHANGED <<lines, disk, store, run, exit_status, SHOULD_STOP,
                   checkpoint_manager, checkpoint, start_index, file_index, outcome,
                   cleared, signal_received, usage, savevars, auxvars>>

(***************************************************************************)
(* process_file_with_checkpoint                                            *)
(***************************************************************************)
\* open, seek to the saved byte, drop the line the seek landed in
OpenFile ==
    /\ pc = "open"
    /\ IF start_byte > 0
       THEN /\ nxt' = SeekAndReadline(CurFile, start_byte)
            /\ stats' = [stats EXCEPT !.total_read = @ + 1]
       ELSE /\ nxt' = 0
            /\ stats' = stats
    /\ current_byte_position' = start_byte
    /\ pc' = "read"
    /\ UNCHANGED <<flushes, lines, disk, store, run, exit_status, SHOULD_STOP, CURRENT_PROGRESS,
                   checkpoint_manager, checkpoint, start_index, file_index, start_byte,
                   start_line, chunk, insert_batch, last_checkpoint_line, parsed,
                   outcome, cleared, signal_received, usage, savevars, auxvars>>

\* checkpoint.json after the except clause of process_file_with_checkpoint:
\* with current_byte_position not yet assigned, building the arguments of
\* save_checkpoint raises and nothing is saved
ErrorCheckpoint ==
    IF ~SHOULD_STOP /\ current_byte_position # Unbound
    THEN save_checkpoint(CurFile, current_byte_position, stats.total_read,
                         stats.total_inserted, "error")
    ELSE disk

\* open(), seek() or readline() raises: the except clause, which re-raises
OpenFails ==
    /\ pc = "open"
    /\ disk' = ErrorCheckpoint
    /\ outcome' = [outcome EXCEPT ![CurFile] = "failed"]
    /\ pc' = "raised"
    /\ UNCHANGED <<flushes, lines, store, run, exit_status, SHOULD_STOP, CURRENT_PROGRESS,
                   checkpoint_manager, checkpoint, start_index, file_index, start_byte,
                   start_line, stats, chunk, insert_batch, last_checkpoint_line,
                   current_byte_position, nxt, parsed, cleared, signal_received, usage,
                   savevars, auxvars>>

\* as ReadLine, but with the mirror written key by key and left after the
\* first two keys: the state a signal would see between two assignments
ReadLineTornMirror ==
    /\ pc = "read"
    /\ nxt < NumLines(CurFile)
    /\ nxt' = nxt + 1
    /\ current_byte_position' = current_byte_position + LineBytes(Line(CurFile, nxt))
    /\ CURRENT_PROGRESS' = [CURRENT_PROGRESS EXCEPT
                               !.file_path = CurFile,
                               !.byte_position = current_byte_position']
    /\ pc' = "check"
    /\ UNCHANGED <<flushes, lines, disk, store, run, exit_status, SHOULD_STOP,
                   checkpoint_manager, checkpoint, start_index, file_index, start_byte,
                   start_line, stats, chunk, insert_batch, last_checkpoint_line, parsed,
                   outcome, cleared, signal_received, usage, savevars, auxvars>>

\* for line in f: one more line, the byte position and the progress mirror
ReadLine ==
    /\ pc = "read"
    /\ nxt < NumLines(CurFile)
    /\ nxt' = nxt + 1
    /\ current_byte_position' = current_byte_position + LineBytes(Line(CurFile, nxt))
    /\ CURRENT_PROGRESS' = [file_path |-> CurFile,
                            byte_position |-> current_byte_position',
                            line_number |-> stats.total_read,
                            inserted_count |-> stats.total_inserted]
    /\ pc' = "check"
    /\ UNCHANGED <<flushes, lines, disk, store, run, exit_status, SHOULD_STOP,
                   checkpoint_manager, checkpoint, start_index, file_index, start_byte,
                   start_line, stats, chunk, insert_batch, last_checkpoint_line, parsed,
                   outcome, cleared, signal_received, usage, savevars, auxvars>>

\* reading the next line raises (I/O or decoding error)
ReadFails ==
    /\ pc = "read"
    /\ disk' = ErrorCheckpoint
    /\ outcome' = [outcome EXCEPT ![CurFile] = "failed"]
    /\ pc' = "raised"
    /\ UNCHANGED <<flushes, lines, store, run, exit_status, SHOULD_STOP, CURRENT_PROGRESS,
                   checkpoint_manager, checkpoint, start_index, file_index, start_byte,
                   start_line, stats, chunk, insert_batch, last_checkpoint_line,
                   current_byte_position, nxt, parsed, cleared, signal_received, usage,
                   savevars, auxvars>>

\* as MemoryCheckpoint, but with the line just read counted in the cursor
MemoryCheckpointCountingLine ==
    save_checkpoint(CurFile, current_byte_position, stats.total_read + 1,
                    stats.total_inserted, "memory_limit_exceeded")

\* lines 335-341: the checkpoint of the memory halt
MemoryCheckpoint ==
    save_checkpoint(CurFile, current_byte_position, stats.total_read,
                    stats.total_inserted, "memory_limit_exceeded")

\* as CheckStops, but with the loop going on after the memory halt was noted
CheckStopsWithoutReturn ==
    /\ pc = "check"
    /\ IF stats.total_read % MemCheckEvery = 0
       THEN \E sample \in MemSamples :
            /\ usage' = sample
            /\ IF check_memory_limit(sample, MemoryLimit)
               THEN /\ disk' = MemoryCheckpoint
                    /\ SHOULD_STOP' = TRUE
                    /\ outcome' = [outcome EXCEPT ![CurFile] = "halted"]
                    /\ pc' = "count"
               ELSE /\ pc' = IF SHOULD_STOP THEN "returned" ELSE "count"
                    /\ outcome' = IF SHOULD_STOP
                                  THEN [outcome EXCEPT ![CurFile] = "interrupted"]
                                  ELSE outcome
                    /\ UNCHANGED <<disk, SHOULD_STOP>>
       ELSE /\ pc' = IF SHOULD_STOP THEN "returned" ELSE "count"
            /\ outcome' = IF SHOULD_STOP
                          THEN [outcome EXCEPT ![CurFile] = "interrupted"]
                          ELSE outcome
            /\ UNCHANGED <<disk, SHOULD_STOP, usage>>
    /\ UNCHANGED <<flushes, lines, store, run, exit_status, CURRENT_PROGRESS, checkpoint_manager,
                   checkpoint, start_index, file_index, start_byte, start_line, stats,
                   chunk, insert_batch, last_checkpoint_line, current_byte_position,
                   nxt, parsed, cleared, signal_received, savevars, auxvars>>

\* lines 325-352: the memory check and the stop flag
CheckStops ==
    /\ pc = "check"
    /\ IF stats.total_read % MemCheckEvery = 0
       THEN \E sample \in MemSamples :
            /\ usage' = sample
            /\ IF check_memory_limit(sample, MemoryLimit)
               THEN /\ disk' = MemoryCheckpoint
                    /\ SHOULD_STOP' = TRUE
                    /\ outcome' = [outcome EXCEPT ![CurFile] = "halted"]
                    /\ pc' = "returned"
               ELSE /\ pc' = IF SHOULD_STOP THEN "returned" ELSE "count"
                    /\ outcome' = IF SHOULD_STOP
                                  THEN [outcome EXCEPT ![CurFile] = "interrupted"]
                                  ELSE outcome
                    /\ UNCHANGED <<disk, SHOULD_STOP>>
       ELSE /\ pc' = IF SHOULD_STOP THEN "returned" ELSE "count"
            /\ outcome' = IF SHOULD_STOP
                          THEN [outcome EXCEPT ![CurFile] = "interrupted"]
                          ELSE outcome
            /\ UNCHANGED <<disk, SHOULD_STOP, usage>>
    /\ UNCHANGED <<flushes, lines, store, run, exit_status, CURRENT_PROGRESS, checkpoint_manager,
                   checkpoint, start_index, file_index, start_byte, start_line, stats,
                   chunk, insert_batch, last_checkpoint_line, current_byte_position,
                   nxt, parsed, cleared, signal_received, savevars, auxvars>>

\* as CountLine, but without noting the line of the auto-save
CountLineKeepingLastLine ==
    /\ pc = "count"
    /\ stats' = [stats EXCEPT !.total_read = @ + 1]
    /\ IF /\ stats'.total_read % StatusEvery = 0
          /\ stats'.total_read - last_checkpoint_line >= AutoSaveGap
       THEN disk' = save_checkpoint(CurFile, current_byte_position, stats'.total_read,
                                    stats'.total_inserted, "auto_save")
       ELSE UNCHANGED disk
    /\ pc' = "parse"
    /\ UNCHANGED <<lines, store, run, exit_status, SHOULD_STOP, CURRENT_PROGRESS,
                   checkpoint_manager, checkpoint, start_index, file_index, start_byte,
                   start_line, chunk, insert_batch, last_checkpoint_line,
                   current_byte_position, nxt, parsed, outcome, cleared,
                   signal_received, usage, flushes, savevars, auxvars>>

\* lines 354-372: count the line; status and auto-save
CountLine ==
    /\ pc = "count"
    /\ stats' = [stats EXCEPT !.total_read = @ + 1]
    /\ IF /\ stats'.total_read % StatusEvery = 0
          /\ stats'.total_read - last_checkpoint_line >= AutoSaveGap
       THEN /\ disk' = save_checkpoint(CurFile, current_byte_position, stats'.total_read,
                                       stats'.total_inserted, "auto_save")
            /\ last_checkpoint_line' = stats'.total_read
       ELSE UNCHANGED <<disk, last_checkpoint_line>>
    /\ pc' = "parse"
    /\ UNCHANGED <<flushes, lines, store, run, exit_status, SHOULD_STOP, CURRENT_PROGRESS,
                   checkpoint_manager, checkpoint, start_index, file_index, start_byte,
                   start_line, chunk, insert_batch, current_byte_position, nxt, parsed,
                   outcome, cleared, signal_received, usage, savevars, auxvars>>

\* as ParseLine, but with the undecodable line put into the chunk like a record
ParseLineKeepingBadLine ==
    /\ pc = "parse"
    /\ LET i == nxt - 1
           full == Append(chunk, i)
           processed == process_chunk(CurFile, full)
           batch == insert_batch \o processed
       IN  /\ parsed' = parsed \cup {i}
           /\ IF Len(full) < chunk_size
              THEN /\ chunk' = full
                   /\ UNCHANGED <<insert_batch, stats, store, flushes>>
              ELSE IF Len(batch) < InsertBatchSize
              THEN /\ chunk' = <<>>
                   /\ insert_batch' = batch
                   /\ stats' = [stats EXCEPT !.total_processed = @ + Len(processed)]
                   /\ UNCHANGED <<store, flushes>>
              ELSE /\ chunk' = <<>>
                   /\ insert_batch' = <<>>
                   /\ store' = fast_insert_batch_products(CurFile, batch)
                   /\ flushes' = Append(flushes, Len(batch))
                   /\ stats' = [stats EXCEPT !.total_processed = @ + Len(processed),
                                             !.total_inserted = @ + Len(batch)]
    /\ pc' = "read"
    /\ UNCHANGED <<lines, disk, run, exit_status, SHOULD_STOP, CURRENT_PROGRESS,
                   checkpoint_manager, checkpoint, start_index, file_index, start_byte,
                   start_line, last_checkpoint_line, current_byte_position, nxt,
                   outcome, cleared, signal_received, usage, savevars, auxvars>>

\* lines 374-397: decode the line, fill the chunk, transform, fill and flush the batch
ParseLine ==
    /\ pc = "parse"
    /\ LET i == nxt - 1
           full == Append(chunk, i)
           processed == process_chunk(CurFile, full)
           batch == insert_batch \o processed
       IN  /\ parsed' = parsed \cup {i}
           /\ IF Line(CurFile, i) = "bad"
              THEN UNCHANGED <<chunk, insert_batch, stats, store, flushes>>
              ELSE IF Len(full) < chunk_size
              THEN /\ chunk' = full
                   /\ UNCHANGED <<insert_batch, stats, store, flushes>>
              ELSE IF Len(batch) < InsertBatchSize
              THEN /\ chunk' = <<>>
                   /\ insert_batch' = batch
                   /\ stats' = [stats EXCEPT !.total_processed = @ + Len(processed)]
                   /\ UNCHANGED <<store, flushes>>
              ELSE /\ chunk' = <<>>
                   /\ insert_batch' = <<>>
                   /\ store' = fast_insert_batch_products(CurFile, batch)
                   /\ flushes' = Append(flushes, Len(batch))
                   /\ stats' = [stats EXCEPT !.total_processed = @ + Len(processed),
                                             !.total_inserted = @ + Len(batch)]
    /\ pc' = "read"
    /\ UNCHANGED <<lines, disk, run, exit_status, SHOULD_STOP, CURRENT_PROGRESS,
                   checkpoint_manager, checkpoint, start_index, file_index, start_byte,
                   start_line, last_checkpoint_line, current_byte_position, nxt,
                   outcome, cleared, signal_received, usage, savevars, auxvars>>

\* as EndOfFile, but without the insert of what is left in the batch
EndOfFileWithoutFlush ==
    /\ pc = "read"
    /\ nxt >= NumLines(CurFile)
    /\ LET processed == process_chunk(CurFile, chunk)
           batch == insert_batch \o processed
       IN  /\ stats' = [stats EXCEPT !.total_processed = @ + Len(processed)]
           /\ insert_batch' = batch
    /\ outcome' = [outcome EXCEPT ![CurFile] = "completed"]
    /\ pc' = "returned"
    /\ UNCHANGED <<lines, disk, store, run, exit_status, SHOULD_STOP, CURRENT_PROGRESS,
                   checkpoint_manager, checkpoint, start_index, file_index, start_byte,
                   start_line, chunk, last_checkpoint_line, current_byte_position, nxt,
                   parsed, cleared, signal_received, usage, flushes, savevars, auxvars>>

\* lines 399-448: end of file, the last chunk and the rest of the batch
EndOfFile ==
    /\ pc = "read"
    /\ nxt >= NumLines(CurFile)
    /\ LET processed == process_chunk(CurFile, chunk)
           batch == insert_batch \o processed
       IN  /\ store' = fast_insert_batch_products(CurFile, batch)
           /\ stats' = [stats EXCEPT !.total_processed = @ + Len(processed),
                                     !.total_inserted = @ + Len(batch)]
           /\ insert_batch' = batch
           /\ flushes' = IF batch # <<>> THEN Append(flushes, Len(batch)) ELSE flushes
    /\ outcome' = [outcome EXCEPT ![CurFile] = "completed"]
    /\ pc' = "returned"
    /\ UNCHANGED <<lines, disk, run, exit_status, SHOULD_STOP, CURRENT_PROGRESS,
                   checkpoint_manager, checkpoint, start_index, file_index, start_byte,
                   start_line, chunk, last_checkpoint_line, current_byte_position, nxt,
                   parsed, cleared, signal_received, usage, savevars, auxvars>>

(***************************************************************************)
(* main(): after a file, and the end of the process                        *)
(***************************************************************************)
\* as AfterFile, but going on to the next file whatever the stop flag says
AfterFileIgnoringStop ==
    /\ pc = "returned"
    /\ IF ~SHOULD_STOP /\ file_index = Len(JSON_FILES)
       THEN /\ disk' = clear_checkpoint(disk)
            /\ cleared' = TRUE
       ELSE UNCHANGED <<disk, cleared>>
    /\ IF file_index < Len(JSON_FILES)
       THEN /\ file_index' = file_index + 1
            /\ pc' = "call"
       ELSE /\ file_index' = file_index
            /\ pc' = "finish"
    /\ UNCHANGED <<flushes, lines, store, run, exit_status, SHOULD_STOP, CURRENT_PROGRESS,
                   checkpoint_manager, checkpoint, start_index, start_byte, start_line,
                   stats, chunk, insert_batch, last_checkpoint_line,
                   current_byte_position, nxt, parsed, outcome, signal_received, usage,
                   savevars, auxvars>>

\* main, lines 567-601
AfterFile ==
    /\ pc = "returned"
    /\ IF ~SHOULD_STOP /\ file_index = Len(JSON_FILES)
       THEN /\ disk' = clear_checkpoint(disk)
            /\ cleared' = TRUE
       ELSE UNCHANGED <<disk, cleared>>
    /\ IF ~SHOULD_STOP /\ file_index < Len(JSON_FILES)
       THEN /\ file_index' = file_index + 1
            /\ pc' = "call"
       ELSE /\ file_index' = file_index
            /\ pc' = "finish"
    /\ UNCHANGED <<flushes, lines, store, run, exit_status, SHOULD_STOP, CURRENT_PROGRESS,
                   checkpoint_manager, checkpoint, start_index, start_byte, start_line,
                   stats, chunk, insert_batch, last_checkpoint_line,
                   current_byte_position, nxt, parsed, outcome, signal_received, usage,
                   savevars, auxvars>>

\* main, lines 590-595: the except clause of the loop over the files logs the
\* error and continues with the next file
MainExcept ==
    /\ pc = "raised"
    /\ IF file_index < Len(JSON_FILES)
       THEN /\ file_index' = file_index + 1
            /\ pc' = "call"
       ELSE /\ file_index' = file_index
            /\ pc' = "finish"
    /\ UNCHANGED <<flushes, lines, disk, store, run, exit_status, SHOULD_STOP, CURRENT_PROGRESS,
                   checkpoint_manager, checkpoint, start_index, start_byte, start_line,
                   stats, chunk, insert_batch, last_checkpoint_line,
                   current_byte_position, nxt, parsed, outcome, cleared,
                   signal_received, usage, savevars, auxvars>>

\* main returns and the interpreter exits
Finish ==
    /\ pc = "finish"
    /\ exit_status' = 0
    /\ pc' = "atexit"
    /\ UNCHANGED <<flushes, lines, disk, store, run, SHOULD_STOP, CURRENT_PROGRESS,
                   checkpoint_manager, checkpoint, start_index, file_index, start_byte,
                   start_line, stats, chunk, insert_batch, last_checkpoint_line,
                   current_byte_position, nxt, parsed, outcome, cleared,
                   signal_received, usage, savevars, auxvars>>

InFile == pc \in {"open", "read", "check", "count", "parse"}

\* the signal arrives inside a try statement with a bare except clause, which
\* swallows the SystemExit of sys.exit(0): get_memory_usage (line 104) at a
\* sampling point, parse_product_item (line 156) and the fallback of
\* fast_insert_batch_products (line 225) while a line is handled
InBareExcept ==
    \/ pc = "check" /\ stats.total_read % MemCheckEvery = 0
    \/ pc = "parse"

\* SIGINT or SIGTERM arrives while main runs: signal_handler, to its
\* sys.exit(0); the process exits, or goes on where SystemExit is swallowed
signal_handler ==
    /\ pc \in {"start", "call", "open", "read", "check", "count", "parse", "returned",
               "raised", "finish"}
    /\ SHOULD_STOP' = TRUE
    /\ disk' = emergency_save_checkpoint("user_interrupt")
    /\ \/ /\ exit_status' = 0
          /\ signal_received' = TRUE
          /\ outcome' = IF InFile THEN [outcome EXCEPT ![CurFile] = "interrupted"]
                        ELSE outcome
          /\ pc' = "atexit"
       \/ /\ InBareExcept
          /\ UNCHANGED <<exit_status, signal_received, outcome, pc>>
    /\ UNCHANGED <<flushes, lines, store, run, CURRENT_PROGRESS, checkpoint_manager, checkpoint,
                   start_index, file_index, start_byte, start_line, stats, chunk,
                   insert_batch, last_checkpoint_line, current_byte_position, nxt,
                   parsed, cleared, usage, savevars, auxvars>>

atexit_handler ==
    /\ pc = "atexit"
    /\ disk' = IF SHOULD_STOP THEN emergency_save_checkpoint("program_exit") ELSE disk
    /\ pc' = "exited"
    /\ UNCHANGED <<flushes, lines, store, run, exit_status, SHOULD_STOP, CURRENT_PROGRESS,
                   checkpoint_manager, checkpoint, start_index, file_index, start_byte,
                   start_line, stats, chunk, insert_batch, last_checkpoint_line,
                   current_byte_position, nxt, parsed, outcome, cleared,
                   signal_received, usage, savevars, auxvars>>

\* the operator runs the program again
Restart ==
    /\ pc = "exited"
    /\ run < MaxRuns
    /\ run' = run + 1
    /\ pc' = "start"
    /\ exit_status' = Running
    /\ SHOULD_STOP' = FALSE
    /\ CURRENT_PROGRESS' = InitialProgress
    /\ checkpoint_manager' = FALSE
    /\ checkpoint' = NoCheckpoint
    /\ start_index' = 1
    /\ file_index' = 1
    /\ start_byte' = 0
    /\ start_line' = 0
    /\ stats' = NoStats
    /\ chunk' = <<>>
    /\ insert_batch' = <<>>
    /\ last_checkpoint_line' = 0
    /\ current_byte_position' = Unbound
    /\ nxt' = 0
    /\ parsed' = {}
    /\ outcome' = [f \in Files |-> "none"]
    /\ cleared' = FALSE
    /\ signal_received' = FALSE
    /\ usage' = 0
    /\ flushes' = <<>>
    /\ UNCHANGED <<savevars, auxvars>>
    /\ UNCHANGED <<lines, disk, store>>

Next ==
    \/ Startup
    \/ CallProcessFile
    \/ OpenFile
    \/ OpenFails
    \/ ReadLine
    \/ ReadFails
    \/ CheckStops
    \/ CountLine
    \/ ParseLine
    \/ EndOfFile
    \/ AfterFile
    \/ MainExcept
    \/ Finish
    \/ signal_handler
    \/ atexit_handler
    \/ Restart

Spec == Init /\ [][Next]_vars

\* the first invocation finds no checkpoint.json
InitFresh == Init /\ disk = NoCheckpoint

SpecFresh == InitFresh /\ [][Next]_vars


(***************************************************************************)
(* One input file (the second configured file is empty), longer than the   *)
(* files of Spec, and no checkpoint at the start.                          *)
(***************************************************************************)
\* number of lines of the file
MaxFileLines == 4

OneFileSets ==
    {g \in [Files -> UNION {[1..n -> Kinds] : n \in 0..MaxFileLines}] :
        \A i \in 2..Len(JSON_FILES) : g[JSON_FILES[i]] = << >>}

InitOneFile ==
    /\ lines \in OneFileSets
    /\ disk = NoCheckpoint
    /\ store = {}
    /\ run = 1
    /\ ProcessStart
    /\ SaveIdle
    /\ AuxIdle

SpecOneFile == InitOneFile /\ [][Next]_vars

(***************************************************************************)
(* CheckpointManager.save_checkpoint step by step, with the process dying  *)
(* at any step.  Everything but the two files stays as it is.              *)
(***************************************************************************)
mainvars == <<lines, disk, store, run, pc, exit_status, SHOULD_STOP, CURRENT_PROGRESS,
              checkpoint_manager, checkpoint, start_index, file_index, start_byte,
              start_line, stats, chunk, insert_batch, last_checkpoint_line,
              current_byte_position, nxt, parsed, outcome, cleared, signal_received,
              usage, flushes>>

\* lines 33-41: the checkpoint dictionary
SaveBegin ==
    /\ save_pc = "idle"
    /\ \E file_path \in Files, line_number \in 0..MaxLines,
          reason \in {"auto_save", "error"} :
            new_checkpoint' =
                save_checkpoint(file_path, line_number, line_number, 0, reason)
    /\ previous' = fs[checkpoint_file].data
    /\ save_pc' = "open"
    /\ UNCHANGED <<fs, mainvars, auxvars>>

\* as SaveOpenTemp, but writing checkpoint.json in place
SaveOpenInPlace ==
    /\ save_pc = "open"
    /\ fs' = [fs EXCEPT ![checkpoint_file] = [data |-> new_checkpoint, written |-> 0]]
    /\ save_pc' = "write"
    /\ UNCHANGED <<new_checkpoint, previous, mainvars, auxvars>>

\* line 46: open(temp_file, 'w') creates or empties the temporary file
SaveOpenTemp ==
    /\ save_pc = "open"
    /\ fs' = [fs EXCEPT ![temp_file] = [data |-> new_checkpoint, written |-> 0]]
    /\ save_pc' = "write"
    /\ UNCHANGED <<new_checkpoint, previous, mainvars, auxvars>>

\* lines 46-47: json.dump and the close of the with statement; the text
\* reaches the temporary file piece by piece
SaveWrite ==
    /\ save_pc = "write"
    /\ fs' = [fs EXCEPT ![temp_file].written = @ + 1]
    /\ save_pc' = IF fs'[temp_file].written = JsonPieces THEN "replace" ELSE "write"
    /\ UNCHANGED <<new_checkpoint, previous, mainvars, auxvars>>

\* lines 50-53: os.replace, or os.rename when checkpoint.json does not exist
SaveReplace ==
    /\ save_pc = "replace"
    /\ fs' = [fs EXCEPT ![checkpoint_file] = fs[temp_file], ![temp_file] = Absent]
    /\ save_pc' = "idle"
    /\ UNCHANGED <<new_checkpoint, previous, mainvars, auxvars>>

\* the process dies in the middle of save_checkpoint
Crash ==
    /\ save_pc \in {"open", "write", "replace"}
    /\ save_pc' = "crashed"
    /\ UNCHANGED <<fs, new_checkpoint, previous, mainvars, auxvars>>

\* a later process: the files are as the dead one left them
Recover ==
    /\ save_pc = "crashed"
    /\ save_pc' = "idle"
    /\ UNCHANGED <<fs, new_checkpoint, previous, mainvars, auxvars>>

SaveInit ==
    /\ lines = [f \in Files |-> << >>]
    /\ disk = NoCheckpoint
    /\ store = {}
    /\ run = 1
    /\ ProcessStart
    /\ SaveIdle
    /\ AuxIdle

SaveNext ==
    \/ SaveBegin
    \/ SaveOpenTemp
    \/ SaveWrite
    \/ SaveReplace
    \/ Crash
    \/ Recover

SpecSave == SaveInit /\ [][SaveNext]_vars

\* what a reader of path p gets: nothing, a checkpoint, or text json.load rejects
ReadFile(p) ==
    IF fs[p] = Absent THEN NoCheckpoint
    ELSE IF fs[p].written < JsonPieces THEN Unparseable
    ELSE fs[p].data

(***************************************************************************)
(* The checkpoint file between invocations: what main() finds in it, what  *)
(* save_checkpoint leaves in it and what checkpoint_utils.py makes of it.  *)
(***************************************************************************)
\* largest cursor value in a checkpoint file
MaxCursor == 1

Cursors == -1..MaxCursor

\* checkpoints in the shape save_checkpoint writes (timestamp and
\* program_version left out), valid or not
SavedShape ==
    {save_checkpoint(f, b, l, n, r) :
        f \in Files \cup {OtherFile}, b \in Cursors, l \in Cursors, n \in {0, 1},
        r \in {"auto_save"}}

\* document c without field k
Without(c, k) == [x \in DOMAIN c \ {k} |-> c[x]]

\* documents that lack one required field and are valid otherwise
LackingField ==
    {Without(save_checkpoint(f, 1, 1, 0, "auto_save"), k) :
        f \in Files, k \in required_fields}

\* checkpoint_utils.py, lines 113-120: the line-based checkpoint
LineBased(file_path, line_number, inserted_count, reason) ==
    [file_path |-> file_path, line_number |-> line_number,
     inserted_count |-> inserted_count, reason |-> reason,
     version |-> "line_based_v1"]

\* the file after convert_old_checkpoint, with the operator answering y
convert_old_checkpoint(d) ==
    IF d = NoCheckpoint \/ d = Unparseable THEN d
    ELSE IF "byte_position" \in DOMAIN d /\ "version" \notin DOMAIN d
    THEN IF "file_path" \in DOMAIN d
         THEN LineBased(d.file_path, Get(d, "line_number", 0),
                        Get(d, "inserted_count", 0), Get(d, "reason", "converted"))
         ELSE d
    ELSE d

\* what checkpoint.json may hold when the program starts
Documents ==
    {NoCheckpoint, Unparseable} \cup SavedShape \cup LackingField
        \cup {LineBased(f, l, 0, "converted") : f \in Files, l \in Cursors}

StoreInit ==
    /\ lines = [f \in Files |-> << >>]
    /\ disk \in Documents
    /\ store = {}
    /\ run = 1
    /\ ProcessStart
    /\ SaveIdle
    /\ AuxIdle

\* a call of save_checkpoint by the running program; new_checkpoint keeps
\* the arguments of the last call
StoreSave ==
    /\ pc = "open"
    /\ \E b \in Cursors, l \in Cursors, n \in {0, 1}, r \in {"auto_save", "error"} :
            /\ disk' = save_checkpoint(CurFile, b, l, n, r)
            /\ new_checkpoint' = [file_path |-> CurFile, byte_position |-> b,
                                  line_number |-> l, inserted_count |-> n,
                                  reason |-> r]
    /\ UNCHANGED <<flushes, lines, store, run, pc, exit_status, SHOULD_STOP, CURRENT_PROGRESS,
                   checkpoint_manager, checkpoint, start_index, file_index, start_byte,
                   start_line, stats, chunk, insert_batch, last_checkpoint_line,
                   current_byte_position, nxt, parsed, outcome, cleared,
                   signal_received, usage, fs, save_pc, previous, auxvars>>

\* the process ends
StoreExit ==
    /\ pc = "open"
    /\ pc' = "exited"
    /\ exit_status' = 0
    /\ UNCHANGED <<flushes, lines, disk, store, run, SHOULD_STOP, CURRENT_PROGRESS,
                   checkpoint_manager, checkpoint, start_index, file_index, start_byte,
                   start_line, stats, chunk, insert_batch, last_checkpoint_line,
                   current_byte_position, nxt, parsed, outcome, cleared,
                   signal_received, usage, savevars, auxvars>>

\* the operator runs "checkpoint_utils.py convert" between two invocations;
\* the file is no longer what save_checkpoint wrote
StoreConvert ==
    /\ pc = "exited"
    /\ disk' = convert_old_checkpoint(disk)
    /\ disk' # disk
    /\ new_checkpoint' = NoCheckpoint
    /\ UNCHANGED <<flushes, lines, store, run, pc, exit_status, SHOULD_STOP, CURRENT_PROGRESS,
                   checkpoint_manager, checkpoint, start_index, file_index, start_byte,
                   start_line, stats, chunk, insert_batch, last_checkpoint_line,
                   current_byte_position, nxt, parsed, outcome, cleared,
                   signal_received, usage, fs, save_pc, previous, auxvars>>

StoreNext ==
    \/ Startup
    \/ CallProcessFile
    \/ StoreSave
    \/ StoreExit
    \/ StoreConvert
    \/ Restart

SpecStore == StoreInit /\ [][StoreNext]_vars

(***************************************************************************)
(* Properties                                                              *)
(***************************************************************************)
\* C3: whatever step a save has reached or died at, a reader of
\* checkpoint.json finds the complete checkpoint that was there when the
\* save began (or no file, if there was none) or the complete new one,
\* never an empty or partly written file.
C3_AtomicCheckpoint ==
    /\ ReadFile(checkpoint_file) # Unparseable
    /\ save_pc # "idle" => ReadFile(checkpoint_file) \in {previous, new_checkpoint}

\* the process died with the temporary file partly written, over an
\* earlier checkpoint
C3_Witness ==
    /\ save_pc = "crashed"
    /\ fs[temp_file].written > 0
    /\ ReadFile(temp_file) = Unparseable
    /\ previous # NoCheckpoint
    /\ ReadFile(checkpoint_file) = previous

\* the first call of process_file_with_checkpoint of a resumed invocation
\* has returned after reading its file to the end
ResumedFileCompleted ==
    /\ pc = "returned"
    /\ outcome[CurFile] = "completed"
    /\ resume_from_checkpoint
    /\ file_index = start_index
    /\ checkpoint.file_path = CurFile

\* C1: a run resumed from a checkpoint saved mid-file with cursor N hands
\* every line at position N or later to the decoder and the transform; no
\* line is skipped for good.
C1_ResumeSkipsNoLine ==
    (ResumedFileCompleted /\ checkpoint.line_number < NumLines(CurFile))
        => \A i \in checkpoint.line_number..(NumLines(CurFile) - 1) : i \in parsed

\* the lines of file f in front of cursor n
LinesBefore(f, n) == {i \in 0..(NumLines(f) - 1) : i < n}

\* line i of file f is accounted for: handed to bulk insert, or not kept by
\* the transform
Accounted(f, i) == Line(f, i) # "ok" \/ <<f, i>> \in store

\* C2: whenever checkpoint.json holds a checkpoint with cursor N for a
\* file, every line of that file before N has been handed to bulk insert or
\* was rejected by the transform (the store only grows, so this holds from
\* the moment the checkpoint is persisted on).
C2_CheckpointCoversInserted ==
    (disk # NoCheckpoint /\ disk.file_path \in Files)
        => \A i \in LinesBefore(disk.file_path, disk.line_number) :
                Accounted(disk.file_path, i)

MemoryHalted == \E f \in Files : outcome[f] = "halted"

\* C5: when the usage sampled at a sampling point exceeds the limit, the
\* call saves a checkpoint with reason memory_limit_exceeded whose
\* line_number is that of the progress mirror, returns normally and no
\* further line is read; a call goes on past a sampling point only when
\* the sample did not exceed the limit.
C5_MemoryHalt ==
    /\ (pc = "returned" /\ outcome[CurFile] = "halted")
        => /\ disk.reason = "memory_limit_exceeded"
           /\ disk.file_path = CurFile
           /\ disk.line_number = CURRENT_PROGRESS.line_number
           /\ SHOULD_STOP
           /\ exit_status = Running
    /\ MemoryHalted => pc \in {"returned", "finish", "atexit", "exited"}
    /\ (pc = "count" /\ stats.total_read % MemCheckEvery = 0)
        => ~check_memory_limit(usage, MemoryLimit)

C5_Witness ==
    /\ pc = "returned"
    /\ outcome[CurFile] = "halted"
    /\ disk.line_number > 0
    /\ usage > MemoryLimit

\* C6: when signal_handler has run, the stop flag is set and, if the
\* progress mirror names a file, checkpoint.json holds the mirror's file,
\* cursor and inserted count with reason user_interrupt.
C6_InterruptSavesMirror ==
    (pc = "atexit" /\ signal_received)
        => /\ SHOULD_STOP
           /\ CURRENT_PROGRESS.file_path # None
                => disk = save_checkpoint(CURRENT_PROGRESS.file_path,
                                          CURRENT_PROGRESS.byte_position,
                                          CURRENT_PROGRESS.line_number,
                                          CURRENT_PROGRESS.inserted_count,
                                          "user_interrupt")

C6_Witness ==
    /\ pc = "atexit"
    /\ signal_received
    /\ outcome[CurFile] = "interrupted"
    /\ disk.reason = "user_interrupt"
    /\ disk.line_number > 0
    /\ disk.inserted_count > 0

\* C7: a process that handled an operator interrupt while a file was in
\* flight exits with a non-zero status (a completed run exits with 0).
C7_InterruptExitStatus ==
    (pc = "exited" /\ signal_received /\ \E f \in Files : outcome[f] = "interrupted")
        => exit_status # 0

\* the first call of process_file_with_checkpoint of an invocation
FirstCall == pc = "open" /\ \A f \in Files : outcome[f] = "none"

\* C8: the first file of an invocation is the file the loaded checkpoint
\* names, at the checkpoint's cursor; without a checkpoint it is the first
\* configured file at position 0.
C8_StartsWhereCheckpointSays ==
    FirstCall =>
        IF checkpoint # NoCheckpoint
        THEN /\ CurFile = checkpoint.file_path
             /\ start_line = checkpoint.line_number
             /\ start_byte = checkpoint.byte_position
        ELSE /\ file_index = 1
             /\ start_line = 0
             /\ start_byte = 0

Stopped(f) == outcome[f] \in {"interrupted", "halted", "failed"}

\* C9: the checkpoint is cleared only in an invocation in which no file was
\* interrupted, halted or failed.
C9_ClearOnlyAfterCleanRun == cleared => \A f \in Files : ~Stopped(f)

\* C10: when a call fails with an error, checkpoint.json holds a checkpoint
\* with reason error that names the file and its failure point by the time
\* the error reaches main.
C10_FailureSavesErrorCheckpoint ==
    pc = "raised"
        => /\ disk.reason = "error"
           /\ disk.file_path = CurFile
           /\ disk.line_number = stats.total_read

\* C4: an invocation in which a file was interrupted, halted or failed
\* ends with a checkpoint load_checkpoint accepts, naming such a file.
C4_StopLeavesCheckpoint ==
    (pc = "exited" /\ \E f \in Files : Stopped(f))
        => /\ load_checkpoint(disk) # NoCheckpoint
           /\ disk.file_path \in Files
           /\ Stopped(disk.file_path)

\* the call for file f returned because of a memory halt or of the stop flag
PlannedStop(f) == outcome[f] \in {"halted", "interrupted"}

\* C11: once the call for a file has stopped on a memory halt or on the
\* operator's stop request, that file stays the current one to the end of
\* the invocation: no later file is started, the checkpoint is not cleared
\* and checkpoint.json is there.
C11_StopEndsRun ==
    \A i \in 1..Len(JSON_FILES) :
        PlannedStop(JSON_FILES[i])
            => /\ file_index = i
               /\ pc \in {"returned", "finish", "atexit", "exited"}
               /\ \A j \in (i + 1)..Len(JSON_FILES) : outcome[JSON_FILES[j]] = "none"
               /\ ~cleared
               /\ disk # NoCheckpoint

\* the first file was stopped by the flag (the signal's SystemExit was
\* swallowed), the invocation has ended and the second file, which has
\* lines, was never started
C11_Witness ==
    /\ pc = "exited"
    /\ outcome[JSON_FILES[1]] = "interrupted"
    /\ ~signal_received
    /\ NumLines(JSON_FILES[2]) > 0
    /\ outcome[JSON_FILES[2]] = "none"

\* a checkpoint file with an object that lacks a required field
LacksField(d) ==
    /\ d \notin {NoCheckpoint, Unparseable}
    /\ ~(required_fields \subseteq DOMAIN d)

\* a checkpoint file with a negative byte_position or line_number
NegativeCursor(d) ==
    \/ "byte_position" \in DOMAIN d /\ d.byte_position < 0
    \/ "line_number" \in DOMAIN d /\ d.line_number < 0

\* C12: from a checkpoint file that is malformed JSON, lacks a required
\* field or carries a negative cursor, load_checkpoint returns None, and an
\* invocation that loaded no checkpoint calls the first configured file at
\* byte 0, line 0.
C12_InvalidCheckpointFreshRun ==
    /\ (pc = "call" /\ (disk = Unparseable \/ LacksField(disk) \/ NegativeCursor(disk)))
        => checkpoint = NoCheckpoint
    /\ (pc = "open" /\ checkpoint = NoCheckpoint)
        => /\ file_index = 1
           /\ start_byte = 0
           /\ start_line = 0

\* the file names the second configured file with a negative cursor; the
\* first file has been called at position 0
C12_Witness ==
    /\ pc = "open"
    /\ run = 1
    /\ new_checkpoint = NoCheckpoint
    /\ NegativeCursor(disk)
    /\ required_fields \subseteq DOMAIN disk
    /\ disk.file_path = JSON_FILES[2]
    /\ checkpoint = NoCheckpoint
    /\ file_index = 1

\* a checkpoint file in the shape with the byte offset, valid
OlderShape(d) ==
    /\ d \notin {NoCheckpoint, Unparseable}
    /\ required_fields \subseteq DOMAIN d
    /\ ~NegativeCursor(d)

\* C13: from a checkpoint file in the older shape (with byte_position)
\* load_checkpoint returns a checkpoint with the file, line_number and
\* inserted_count of the file and without the byte offset.
C13_LoadNarrowsOlderShape ==
    (pc = "call" /\ OlderShape(disk))
        => /\ checkpoint # NoCheckpoint
           /\ checkpoint.file_path = disk.file_path
           /\ checkpoint.line_number = disk.line_number
           /\ checkpoint.inserted_count = disk.inserted_count
           /\ "byte_position" \notin DOMAIN checkpoint

\* a checkpoint file in the line-based shape: version, no byte_position
LineBasedShape(d) ==
    /\ d \notin {NoCheckpoint, Unparseable}
    /\ {"file_path", "line_number", "inserted_count", "reason", "version"}
            \subseteq DOMAIN d
    /\ "byte_position" \notin DOMAIN d
    /\ d.line_number >= 0

\* C14: from a checkpoint file in the line-based shape, as
\* convert_old_checkpoint writes it, load_checkpoint returns a checkpoint
\* with the file and line_number of the file.
C14_LineBasedAccepted ==
    (pc = "call" /\ LineBasedShape(disk))
        => /\ checkpoint # NoCheckpoint
           /\ checkpoint.file_path = disk.file_path
           /\ checkpoint.line_number = disk.line_number

\* C15: the invocation after a save_checkpoint(file, byte, line, inserted,
\* reason) with non-negative byte and line loads exactly these five values,
\* those of the last call of save_checkpoint.
C15_SaveLoadRoundTrip ==
    (/\ pc = "call"
     /\ new_checkpoint # NoCheckpoint
     /\ new_checkpoint.byte_position >= 0
     /\ new_checkpoint.line_number >= 0)
        => /\ checkpoint # NoCheckpoint
           /\ checkpoint.file_path = new_checkpoint.file_path
           /\ checkpoint.byte_position = new_checkpoint.byte_position
           /\ checkpoint.line_number = new_checkpoint.line_number
           /\ checkpoint.inserted_count = new_checkpoint.inserted_count
           /\ checkpoint.reason = new_checkpoint.reason

\* the second invocation has loaded what the first one saved last, with
\* byte and line different
C15_Witness ==
    /\ pc = "call"
    /\ run = 2
    /\ new_checkpoint.reason = "error"
    /\ new_checkpoint.byte_position = 1
    /\ new_checkpoint.line_number = 0
    /\ new_checkpoint.inserted_count = 1
    /\ checkpoint.line_number = 0
    /\ checkpoint.byte_position = 1

\* the lines of file f the transform keeps
Survivors(f) == {i \in 0..(NumLines(f) - 1) : Line(f, i) = "ok"}

\* a call that began at the start of its file has read it to the end, and
\* no stop was requested
FreshCallCompleted ==
    /\ pc = "returned"
    /\ outcome[CurFile] = "completed"
    /\ start_byte = 0
    /\ ~SHOULD_STOP

Ceil(n, b) == (n + b - 1) \div b

\* C16: a call that read its file to the end, N records surviving the
\* transform, flushed the batch ceil(N / InsertBatchSize) times; every
\* flush but the last carried InsertBatchSize records, the last one the
\* rest.
C16_FlushCountAndSizes ==
    FreshCallCompleted =>
        LET N == Cardinality(Survivors(CurFile))
            B == InsertBatchSize
        IN  /\ Len(flushes) = Ceil(N, B)
            /\ \A k \in 1..(Len(flushes) - 1) : flushes[k] = B
            /\ Len(flushes) > 0
                => flushes[Len(flushes)] = (IF N % B = 0 THEN B ELSE N % B)

RECURSIVE SumSeq(_)
SumSeq(s) == IF s = << >> THEN 0 ELSE s[1] + SumSeq(Tail(s))

\* C17: a call that began at the start of a file of N lines, K of them
\* surviving the transform, and read it to the end returns total_read = N
\* and total_processed = total_inserted = K; the records handed to bulk
\* insert are the K survivors, K in number over all flushes; and an
\* invocation that loaded no checkpoint and completed every file ends
\* without a checkpoint.
C17_FreshRunTotals ==
    /\ FreshCallCompleted
        => LET K == Cardinality(Survivors(CurFile))
           IN  /\ stats.total_read = NumLines(CurFile)
               /\ stats.total_processed = K
               /\ stats.total_inserted = K
               /\ SumSeq(flushes) = K
               /\ {i \in 0..(NumLines(CurFile) - 1) : <<CurFile, i>> \in store}
                    = Survivors(CurFile)
    /\ (/\ pc = "exited"
        /\ checkpoint = NoCheckpoint
        /\ ~SHOULD_STOP
        /\ \A f \in Files : outcome[f] = "completed")
        => disk = NoCheckpoint

\* four lines, one of them not decodable, three survivors in a full batch
\* and a partial one, with an auto-save checkpoint on the way
C17_Witness ==
    /\ FreshCallCompleted
    /\ run = 1
    /\ NumLines(CurFile) = MaxFileLines
    /\ \E i \in 0..(NumLines(CurFile) - 1) : Line(CurFile, i) = "bad"
    /\ stats.total_processed = NumLines(CurFile) - 1
    /\ Len(flushes) = 2
    /\ flushes[2] < InsertBatchSize
    /\ disk.reason = "auto_save"

\* the checkpoint an auto-save of the current call writes at this line
AutoSaveHere ==
    save_checkpoint(CurFile, current_byte_position, stats.total_read,
                    stats.total_inserted, "auto_save")

\* a line has just been counted and no stop was requested
LineCounted == pc = "parse" /\ ~SHOULD_STOP

\* C18: each time the count of lines of the call reaches a multiple of the
\* status interval (50,000 lines in the source), checkpoint.json holds an
\* auto_save checkpoint of that line.
C18_AutoSaveEveryStatusInterval ==
    (LineCounted /\ stats.total_read % StatusEvery = 0) => disk = AutoSaveHere

\* C18, amended: each time the count of lines of the call reaches a
\* multiple of twice the status interval (100,000 lines in the source),
\* checkpoint.json holds an auto_save checkpoint of that line; and an
\* auto_save checkpoint is written at no other line.
C18_AutoSaveEverySecondInterval ==
    /\ (LineCounted /\ stats.total_read % AutoSaveGap = 0) => disk = AutoSaveHere
    /\ disk.reason = "auto_save"
        => /\ disk.line_number > 0
           /\ disk.line_number % AutoSaveGap = 0

\* the second auto-save of a call
C18_Witness ==
    /\ LineCounted
    /\ stats.total_read = 2 * AutoSaveGap
    /\ last_checkpoint_line = 2 * AutoSaveGap
    /\ disk = AutoSaveHere
    /\ disk.inserted_count > 0

\* C19: once the current call has flushed its batch, checkpoint.json
\* carries the call's file and its count of inserted records (a checkpoint
\* is persisted after each flush, and the count changes with a flush
\* only); and when the call returns at the end of its file, checkpoint.json
\* carries the file and the final cursor.
C19_CheckpointAfterFlushAndAtEnd ==
    /\ ((InFile \/ pc = "returned") /\ ~SHOULD_STOP /\ flushes # << >>)
        => /\ disk.file_path = CurFile
           /\ disk.inserted_count = stats.total_inserted
    /\ (/\ pc = "returned"
        /\ outcome[CurFile] = "completed"
        /\ ~SHOULD_STOP
        /\ stats.total_read > 0)
        => /\ disk.file_path = CurFile
           /\ disk.line_number = stats.total_read

\* C20: once main has moved on from a file that was read to its end,
\* checkpoint.json does not name that file.
C20_CheckpointNamesFileInFlight ==
    \A i \in 1..Len(JSON_FILES) :
        (outcome[JSON_FILES[i]] = "completed" /\ file_index > i)
            => disk.file_path # JSON_FILES[i]

(***************************************************************************)
(* The line cursor                                                         *)
(***************************************************************************)
\* the mirror was updated for the line in front of which the pointer stood
MirrorUpdated == pc \in {"check", "count", "parse"}

\* the call in progress is the one main started from the loaded checkpoint
ResumedCall == resume_from_checkpoint /\ file_index = start_index /\ InFile

\* C21: the line_number of the mirror is the 0-based count of the lines of
\* the named file consumed since the start of that file, in a resumed run
\* too, and the line_number a resumed call saves for the file it resumed is
\* never below the one it loaded
C21_LineNumberCountsFromFileStart ==
    /\ MirrorUpdated => CURRENT_PROGRESS.line_number = nxt - 1
    /\ (ResumedCall /\ disk # checkpoint /\ disk.file_path = checkpoint.file_path)
          => disk.line_number >= checkpoint.line_number

\* a call that started at the beginning of its file has read a line
FreshCallReading == start_byte = 0 /\ pc \in {"check", "count", "parse", "read"} /\ nxt > 0

\* C22: wherever in the reading loop an emergency checkpoint can be taken,
\* the mirror is current: its line_number is total_read, and its byte
\* position and its line_number denote the same position in the file
C22_MirrorCurrent ==
    FreshCallReading =>
        /\ CURRENT_PROGRESS.line_number = stats.total_read
        /\ CURRENT_PROGRESS.byte_position =
               BytesBefore(CurFile, CURRENT_PROGRESS.line_number)

\* m is what one CURRENT_PROGRESS.update of the call in progress wrote: the
\* one before the file is opened, or the one of the line read last
OneUpdate(m) ==
    \/ /\ pc = "open" \/ (pc = "read" /\ current_byte_position = start_byte)
       /\ m = [file_path |-> CurFile, byte_position |-> start_byte,
               line_number |-> start_line, inserted_count |-> 0]
    \/ /\ pc \in {"check", "count"}
       /\ m = [file_path |-> CurFile, byte_position |-> current_byte_position,
               line_number |-> stats.total_read,
               inserted_count |-> stats.total_inserted]
    \/ /\ pc = "parse"
       /\ m = [file_path |-> CurFile, byte_position |-> current_byte_position,
               line_number |-> stats.total_read - 1,
               inserted_count |-> stats.total_inserted]
    \/ /\ pc = "read" /\ current_byte_position > start_byte
       /\ m.file_path = CurFile
       /\ m.byte_position = current_byte_position
       /\ m.line_number = stats.total_read - 1
       /\ \/ m.inserted_count = stats.total_inserted
          \/ /\ flushes # <<>>
             /\ m.inserted_count = stats.total_inserted - flushes[Len(flushes)]

\* C23: a checkpoint written on the interrupt or exit path holds the file,
\* the cursor and the inserted count of one and the same update of the
\* progress mirror, never a mix of two updates, wherever the signal arrives
C23_CheckpointFromOneMirrorUpdate ==
    /\ InFile => OneUpdate(CURRENT_PROGRESS)
    /\ (pc = "atexit" /\ signal_received /\ CURRENT_PROGRESS.file_path # None)
          => /\ disk.file_path = CURRENT_PROGRESS.file_path
             /\ disk.byte_position = CURRENT_PROGRESS.byte_position
             /\ disk.line_number = CURRENT_PROGRESS.line_number
             /\ disk.inserted_count = CURRENT_PROGRESS.inserted_count
    /\ (pc = "exited" /\ SHOULD_STOP /\ CURRENT_PROGRESS.file_path # None)
          => /\ disk.reason = "program_exit"
             /\ disk.file_path = CURRENT_PROGRESS.file_path
             /\ disk.byte_position = CURRENT_PROGRESS.byte_position
             /\ disk.line_number = CURRENT_PROGRESS.line_number
             /\ disk.inserted_count = CURRENT_PROGRESS.inserted_count

\* the signal arrived between two lines, after an insert the mirror has not
\* seen yet, and both handlers saved
C23_Witness ==
    /\ pc = "exited"
    /\ signal_received
    /\ outcome[CurFile] = "interrupted"
    /\ disk.reason = "program_exit"
    /\ disk.byte_position = current_byte_position
    /\ disk.line_number = stats.total_read - 1
    /\ disk.inserted_count < stats.total_inserted

\* a checkpoint was saved on the stop path of this invocation: by
\* signal_handler with a file in the mirror, or by the memory halt
StopPathSaved ==
    \/ signal_received /\ CURRENT_PROGRESS.file_path # None
    \/ MemoryHalted

\* C24: when the stop flag is set and the stop path has already saved a
\* checkpoint, atexit_handler does not save again, so the process ends with
\* the checkpoint of the stop path
C24_ExitHandlerSavesOnlyOnce ==
    (pc = "exited" /\ SHOULD_STOP /\ StopPathSaved)
        => disk.reason \in {"user_interrupt", "memory_limit_exceeded"}

\* the call has passed the memory check of a sampling point
PassedSamplingPoint == pc = "count" /\ stats.total_read % MemCheckEvery = 0

\* C25: memory is sampled at every MemCheckEvery-th consumed line, and the
\* call halts on memory if and only if the sampled usage exceeds the
\* critical threshold of the configuration
C25_HaltIffAboveConfiguredThreshold ==
    /\ PassedSamplingPoint => usage <= MEMORY_CRITICAL_THRESHOLD
    /\ (pc = "returned" /\ outcome[CurFile] = "halted")
          => usage > MEMORY_CRITICAL_THRESHOLD

(***************************************************************************)
(* optimized_loader.py: the parallel pipeline.  main() handles the files   *)
(* one after the other; process_single_file_parallel submits the chunks of *)
(* a file to a pool of worker processes, collects the results as they      *)
(* complete and inserts them from the collecting process.                  *)
(***************************************************************************)
\* lines of the file of the parallel pipeline
MaxParLines == 5
\* worker processes of the pool (num_workers, scaled)
num_workers == 2

ParFile == JSON_FILES[par_file]

\* lines 79-98: the chunks of file f, each a sequence of the indices of up to
\* chunk_size lines that decode; a line that does not decode is skipped
RECURSIVE ChunksFrom(_, _, _)
ChunksFrom(f, i, cur) ==
    IF i = NumLines(f)
    THEN IF cur = << >> THEN << >> ELSE <<cur>>
    ELSE IF Line(f, i) = "bad"
    THEN ChunksFrom(f, i + 1, cur)
    ELSE IF Len(cur) + 1 >= chunk_size
    THEN <<Append(cur, i)>> \o ChunksFrom(f, i + 1, << >>)
    ELSE ChunksFrom(f, i + 1, Append(cur, i))
read_file_in_chunks(f) == ChunksFrom(f, 0, << >>)

\* lines 43-76, optimized_loader.process_chunk: the records of the items of
\* the chunk that the transform keeps
process_chunk_parallel(f, c) == SelectSeq(c, LAMBDA i : Line(f, i) = "ok")

\* chunks submitted to the pool whose result has not been collected
Outstanding == {c \in DOMAIN future_to_chunk : future_to_chunk[c] # "collected"}
\* chunks a worker process is transforming
RunningChunks == {c \in DOMAIN future_to_chunk : future_to_chunk[c] = "running"}

ParFileContents == UNION {[1..n -> Kinds] : n \in 0..MaxParLines}
ParFileSets ==
    {g \in [Files -> ParFileContents] :
        /\ Len(g[JSON_FILES[1]]) <= MaxParLines
        /\ Len(g[JSON_FILES[2]]) <= 1}

ParInit ==
    /\ lines \in ParFileSets
    /\ disk = NoCheckpoint
    /\ store = {}
    /\ run = 1
    /\ ProcessStart
    /\ SaveIdle
    /\ par_pc = "submit"
    /\ par_file = 1
    /\ future_to_chunk = << >>
    /\ insert_batch_data = << >>
    /\ inserting = {}
    /\ file_stats = NoStats
    /\ handed = EmptyBag
    /\ InsIdle
    /\ TrIdle
    /\ NestIdle

\* lines 143-153: the reading loop takes the next chunk from the generator
\* and submits it
SubmitChunk ==
    /\ par_pc = "submit"
    /\ Len(future_to_chunk) < Len(read_file_in_chunks(ParFile))
    /\ LET chunk_num == Len(future_to_chunk) + 1
       IN  /\ file_stats' = [file_stats EXCEPT
                   !.total_read = @ + Len(read_file_in_chunks(ParFile)[chunk_num])]
           /\ future_to_chunk' = Append(future_to_chunk, "pending")
    /\ UNCHANGED <<par_pc, par_file, insert_batch_data, inserting, handed>>
    /\ UNCHANGED <<mainvars, savevars, insvars, trvars, nestvars>>

\* the generator is exhausted: lines 155-160, the collecting loop begins
AllSubmitted ==
    /\ par_pc = "submit"
    /\ Len(future_to_chunk) = Len(read_file_in_chunks(ParFile))
    /\ insert_batch_data' = << >>
    /\ par_pc' = "collect"
    /\ UNCHANGED <<par_file, future_to_chunk, inserting, file_stats, handed>>
    /\ UNCHANGED <<mainvars, savevars, insvars, trvars, nestvars>>

\* a free worker process of the pool takes a pending chunk
WorkerStart(c) ==
    /\ future_to_chunk[c] = "pending"
    /\ Cardinality(RunningChunks) < num_workers
    /\ future_to_chunk' = [future_to_chunk EXCEPT ![c] = "running"]
    /\ UNCHANGED <<par_pc, par_file, insert_batch_data, inserting, file_stats, handed>>
    /\ UNCHANGED <<mainvars, savevars, insvars, trvars, nestvars>>

\* as WorkerFinish, but with the worker inserting the records it produced
WorkerFinishInserting(c) ==
    /\ future_to_chunk[c] = "running"
    /\ future_to_chunk' = [future_to_chunk EXCEPT ![c] = "done"]
    /\ inserting' = inserting \cup {"worker"}
    /\ UNCHANGED <<par_pc, par_file, insert_batch_data, file_stats, handed>>
    /\ UNCHANGED <<mainvars, savevars, insvars, trvars, nestvars>>

\* lines 43-76: process_chunk returns in the worker process; it touches no
\* session
WorkerFinish(c) ==
    /\ future_to_chunk[c] = "running"
    /\ future_to_chunk' = [future_to_chunk EXCEPT ![c] = "done"]
    /\ UNCHANGED <<par_pc, par_file, insert_batch_data, inserting, file_stats, handed>>
    /\ UNCHANGED <<mainvars, savevars, insvars, trvars, nestvars>>

\* as CollectResult, but with the result of a chunk dropped when a chunk
\* submitted after it was collected before it
CollectResultInOrderOnly(c) ==
    /\ par_pc = "collect"
    /\ future_to_chunk[c] = "done"
    /\ future_to_chunk' = [future_to_chunk EXCEPT ![c] = "collected"]
    /\ LET processed_chunk ==
               IF \E d \in DOMAIN future_to_chunk :
                      d > c /\ future_to_chunk[d] = "collected"
               THEN << >>
               ELSE process_chunk_parallel(ParFile, read_file_in_chunks(ParFile)[c])
       IN  /\ file_stats' = [file_stats EXCEPT
                                !.total_processed = @ + Len(processed_chunk)]
           /\ insert_batch_data' = insert_batch_data \o processed_chunk
    /\ IF Len(insert_batch_data') >= InsertBatchSize * 2
       THEN /\ par_pc' = "insert"
            /\ inserting' = inserting \cup {"pipeline"}
            /\ handed' = handed (+) SeqToBag(insert_batch_data')
       ELSE UNCHANGED <<par_pc, inserting, handed>>
    /\ UNCHANGED par_file
    /\ UNCHANGED <<mainvars, savevars, insvars, trvars, nestvars>>

\* lines 160-174: as_completed yields a completed future; its records go to
\* the batch buffer, and a buffer of twice the batch size is inserted
CollectResult(c) ==
    /\ par_pc = "collect"
    /\ future_to_chunk[c] = "done"
    /\ future_to_chunk' = [future_to_chunk EXCEPT ![c] = "collected"]
    /\ LET processed_chunk ==
               process_chunk_parallel(ParFile, read_file_in_chunks(ParFile)[c])
       IN  /\ file_stats' = [file_stats EXCEPT
                                !.total_processed = @ + Len(processed_chunk)]
           /\ insert_batch_data' = insert_batch_data \o processed_chunk
    /\ IF Len(insert_batch_data') >= InsertBatchSize * 2
       THEN /\ par_pc' = "insert"
            /\ inserting' = inserting \cup {"pipeline"}
            /\ handed' = handed (+) SeqToBag(insert_batch_data')
       ELSE UNCHANGED <<par_pc, inserting, handed>>
    /\ UNCHANGED par_file
    /\ UNCHANGED <<mainvars, savevars, insvars, trvars, nestvars>>

\* lines 190-193: every future is collected; what is left in the buffer is
\* inserted
AllCollected ==
    /\ par_pc = "collect"
    /\ Outstanding = {}
    /\ IF insert_batch_data # << >>
       THEN /\ par_pc' = "tail"
            /\ inserting' = inserting \cup {"pipeline"}
            /\ handed' = handed (+) SeqToBag(insert_batch_data)
       ELSE /\ par_pc' = "done"
            /\ UNCHANGED <<inserting, handed>>
    /\ UNCHANGED <<par_file, future_to_chunk, insert_batch_data, file_stats>>
    /\ UNCHANGED <<mainvars, savevars, insvars, trvars, nestvars>>

\* lines 101-118: fast_insert_batch returns in the collecting process, with
\* the batch committed or, after an error, rolled back and 0 returned
InsertReturns ==
    /\ par_pc \in {"insert", "tail"}
    /\ \E committed \in BOOLEAN :
        /\ store' = IF committed
                    THEN store \cup {<<ParFile, i>> : i \in SeqToSet(insert_batch_data)}
                    ELSE store
        /\ file_stats' = [file_stats EXCEPT !.total_inserted =
                             @ + IF committed THEN Len(insert_batch_data) ELSE 0]
    /\ inserting' = inserting \ {"pipeline"}
    /\ insert_batch_data' = IF par_pc = "insert" THEN << >> ELSE insert_batch_data
    /\ par_pc' = IF par_pc = "insert" THEN "collect" ELSE "done"
    /\ UNCHANGED <<par_file, future_to_chunk, handed>>
    /\ UNCHANGED <<lines, disk, run, pc, exit_status, SHOULD_STOP, CURRENT_PROGRESS,
                   checkpoint_manager, checkpoint, start_index, file_index, start_byte,
                   start_line, stats, chunk, insert_batch, last_checkpoint_line,
                   current_byte_position, nxt, parsed, outcome, cleared,
                   signal_received, usage, flushes, savevars, insvars, trvars, nestvars>>

\* main, lines 336-359: the next file, after the pool of the file before it
\* has shut down
ParNextFile ==
    /\ par_pc = "done"
    /\ par_file < Len(JSON_FILES)
    /\ par_file' = par_file + 1
    /\ future_to_chunk' = << >>
    /\ insert_batch_data' = << >>
    /\ file_stats' = NoStats
    /\ handed' = EmptyBag
    /\ par_pc' = "submit"
    /\ UNCHANGED inserting
    /\ UNCHANGED <<mainvars, savevars, insvars, trvars, nestvars>>

ParNext ==
    \/ SubmitChunk
    \/ AllSubmitted
    \/ \E c \in DOMAIN future_to_chunk : WorkerStart(c)
    \/ \E c \in DOMAIN future_to_chunk : WorkerFinish(c)
    \/ \E c \in DOMAIN future_to_chunk : CollectResult(c)
    \/ AllCollected
    \/ InsertReturns
    \/ ParNextFile

SpecParallel == ParInit /\ [][ParNext]_vars

\* C26: the number of chunks submitted to the pool whose results have not
\* been collected stays bounded whatever the length of the file: the reader
\* submits the next chunk only after the completed results are drained, so
\* no more chunks are outstanding than the pool has workers
C26_OutstandingChunksBounded == Cardinality(Outstanding) <= num_workers

\* C27: at most one bulk insert is in progress at any time, and it is the
\* collecting process that issued it, never a worker
C27_OneInsertByCollector ==
    /\ Cardinality(inserting) <= 1
    /\ inserting \subseteq {"pipeline"}
    /\ (par_pc \in {"insert", "tail"}) <=> (inserting = {"pipeline"})

\* the collecting process inserts while a worker is transforming a chunk
C27_Witness ==
    /\ inserting = {"pipeline"}
    /\ RunningChunks # {}

(***************************************************************************)
(* Bulk insert and its fallback: loader.insert_batch,                      *)
(* optimized_loader.fast_insert_batch and                                  *)
(* optimized_loader_nd.fast_insert_batch_products.  A record of the batch  *)
(* is "good", or "poison": the table rejects it when the session is        *)
(* flushed.                                                                *)
(***************************************************************************)
\* records of the batch
MaxBatch == 3
\* optimized_loader_nd.py:218  the fallback commits every 100 records (scaled)
FallbackCommitEvery == 2

Loaders == {"loader", "optimized_loader", "optimized_loader_nd"}
Batches == UNION {[1..n -> {"good", "poison"}] : n \in 1..MaxBatch}

Good(S) == {i \in S : batch_data[i] = "good"}
Poisoned(S) == \E i \in S : batch_data[i] = "poison"

InsInit ==
    /\ lines = [f \in Files |-> << >>]
    /\ disk = NoCheckpoint
    /\ store = {}
    /\ run = 1
    /\ ProcessStart
    /\ SaveIdle
    /\ ParIdle
    /\ ins_pc = "bulk"
    /\ ins_loader \in Loaders
    /\ batch_data \in Batches
    /\ table = {}
    /\ session_new = {}
    /\ session_failed = FALSE
    /\ ins_i = 0
    /\ successful = 0
    /\ bulk_failed = FALSE
    /\ ins_returned = Running
    /\ TrIdle
    /\ NestIdle

\* session.bulk_insert_mappings and session.commit: the whole batch in one
\* transaction; on an exception the rollback, and then what the loader does
\* next: the fallback loop, or return 0 (optimized_loader.py line 115)
BulkInsert ==
    /\ ins_pc = "bulk"
    /\ IF ~Poisoned(DOMAIN batch_data)
       THEN /\ table' = DOMAIN batch_data
            /\ ins_returned' = Len(batch_data)
            /\ ins_pc' = "returned"
            /\ UNCHANGED <<bulk_failed, ins_i>>
       ELSE /\ bulk_failed' = TRUE
            /\ table' = table
            /\ IF ins_loader = "optimized_loader"
               THEN /\ ins_returned' = 0
                    /\ ins_pc' = "returned"
                    /\ UNCHANGED ins_i
               ELSE /\ ins_pc' = "fallback"
                    /\ ins_i' = 1
                    /\ UNCHANGED ins_returned
    /\ UNCHANGED <<ins_loader, batch_data, session_new, session_failed, successful>>
    /\ UNCHANGED <<mainvars, savevars, parvars, trvars, nestvars>>

\* loader.py lines 153-162: one record is added and committed; on an
\* exception the session is rolled back and the loop goes on
LoaderInsertOne ==
    /\ ins_pc = "fallback"
    /\ ins_loader = "loader"
    /\ ins_i <= Len(batch_data)
    /\ IF batch_data[ins_i] = "good"
       THEN /\ table' = table \cup {ins_i}
            /\ successful' = successful + 1
       ELSE UNCHANGED <<table, successful>>
    /\ ins_i' = ins_i + 1
    /\ UNCHANGED <<ins_pc, ins_loader, batch_data, session_new, session_failed,
                   bulk_failed, ins_returned>>
    /\ UNCHANGED <<mainvars, savevars, parvars, trvars, nestvars>>

\* loader.py lines 164-165
LoaderFallbackEnd ==
    /\ ins_pc = "fallback"
    /\ ins_loader = "loader"
    /\ ins_i > Len(batch_data)
    /\ ins_returned' = successful
    /\ ins_pc' = "returned"
    /\ UNCHANGED <<ins_loader, batch_data, table, session_new, session_failed, ins_i,
                   successful, bulk_failed>>
    /\ UNCHANGED <<mainvars, savevars, parvars, trvars, nestvars>>

\* session.commit(): the records added to the session are flushed in one
\* transaction; if one is rejected, or an earlier flush failed and the
\* session was not rolled back, commit raises and none of them is stored
CommitRaises(new) == session_failed \/ Poisoned(new)

\* optimized_loader_nd.py lines 212-221: one record is added to the session
\* and counted; every FallbackCommitEvery-th record the session is
\* committed, and an exception is passed over
NdInsertOne ==
    /\ ins_pc = "fallback"
    /\ ins_loader = "optimized_loader_nd"
    /\ ins_i <= Len(batch_data)
    /\ successful' = successful + 1
    /\ LET new == session_new \cup {ins_i}
       IN  IF successful' % FallbackCommitEvery # 0
           THEN /\ session_new' = new
                /\ UNCHANGED <<table, session_failed>>
           ELSE IF CommitRaises(new)
           THEN /\ session_new' = new
                /\ session_failed' = TRUE
                /\ UNCHANGED table
           ELSE /\ table' = table \cup new
                /\ session_new' = {}
                /\ UNCHANGED session_failed
    /\ ins_i' = ins_i + 1
    /\ UNCHANGED <<ins_pc, ins_loader, batch_data, bulk_failed, ins_returned>>
    /\ UNCHANGED <<mainvars, savevars, parvars, trvars, nestvars>>

\* optimized_loader_nd.py lines 223-228: the last commit, with a rollback
\* when it raises; the counter of the loop is returned
NdFallbackEnd ==
    /\ ins_pc = "fallback"
    /\ ins_loader = "optimized_loader_nd"
    /\ ins_i > Len(batch_data)
    /\ IF CommitRaises(session_new)
       THEN UNCHANGED table
       ELSE table' = table \cup session_new
    /\ session_new' = {}
    /\ session_failed' = FALSE
    /\ ins_returned' = successful
    /\ ins_pc' = "returned"
    /\ UNCHANGED <<ins_loader, batch_data, ins_i, successful, bulk_failed>>
    /\ UNCHANGED <<mainvars, savevars, parvars, trvars, nestvars>>

InsNext ==
    \/ BulkInsert
    \/ LoaderInsertOne
    \/ LoaderFallbackEnd
    \/ NdInsertOne
    \/ NdFallbackEnd

SpecInsert == InsInit /\ [][InsNext]_vars

\* C28: when the bulk insert of a batch fails, the records of the batch are
\* inserted one by one, and a record that fails does not keep the others
\* out of the table: every good record of the batch is stored
C28_FallbackStoresGoodRecords ==
    (ins_pc = "returned" /\ bulk_failed) => table = Good(DOMAIN batch_data)

(***************************************************************************)
(* The review transform: loader.process_review_data and the loop body of   *)
(* optimized_loader.process_chunk.  A text is a sequence of characters:    *)
(* "a" a letter or digit, " " white space, "-" any other character.  The   *)
(* other strings are plain; widths are scaled, 50 -> 2 and 100 -> 3.       *)
(***************************************************************************)
\* characters of the longest text
MaxText == 4
\* loader.py:96  word_count <= 20 (scaled)
WordThreshold == 1
\* loader.py:102  the rating of a record without productValuation
DefaultValuation == 5

Chars == {"a", " ", "-"}
Texts == UNION {[1..n -> Chars] : n \in 0..MaxText}

\* the number of maximal runs of characters of C in t, from position i on
RECURSIVE RunsFrom(_, _, _)
RunsFrom(t, i, C) ==
    IF i > Len(t)
    THEN 0
    ELSE (IF t[i] \in C /\ (i = 1 \/ t[i - 1] \notin C) THEN 1 ELSE 0)
         + RunsFrom(t, i + 1, C)

\* loader.py lines 25-37: re.findall(r'[а-яА-ЯёЁa-zA-Z0-9]+', text)
count_words(text) == RunsFrom(text, 1, {"a"})

\* optimized_loader.py lines 30-40: len(text.split())
count_words_split(text) == RunsFrom(text, 1, {"a", "-"})

Keys == {"nmId", "nmld", "text", "productValuation", "color", "answer"}

\* s[:w]
Truncate(s, w) == SubSeq(s, 1, IF Len(s) < w THEN Len(s) ELSE w)

\* the decoded lines: any subset of the keys, with empty and non-empty values
Items ==
    {[k \in S |-> full[k]] :
        full \in [nmId : {"", "7", "777"}, nmld : {"7"}, text : Texts,
                  productValuation : {0, 3}, color : {"", "red", "magenta"},
                  answer : {"", "thanks"}],
        S \in SUBSET Keys}

\* loader.py lines 77-133
process_review_data(it) ==
    LET first == Get(it, "nmId", None)
        nm_id == IF first \in {None, ""} THEN Get(it, "nmld", None) ELSE first
        review_text == Get(it, "text", << >>)
        word_count == count_words(review_text)
        product_valuation == Get(it, "productValuation", DefaultValuation)
        color == Get(it, "color", "")
        answer == Get(it, "answer", "")
    IN  IF nm_id \in {None, ""} THEN NoRecord
        ELSE IF review_text = << >> THEN NoRecord
        ELSE IF word_count <= WordThreshold THEN NoRecord
        ELSE [nm_id |-> nm_id,
              product_valuation |-> product_valuation,
              color |-> IF color # "" THEN Truncate(color, 3) ELSE "",
              review_text |-> review_text,
              answer |-> answer,
              word_count |-> word_count,
              has_answer |-> answer # "",
              text_length |-> Len(review_text)]

\* optimized_loader.py lines 47-74: what process_chunk does with one item
process_chunk_item(it) ==
    LET first == Get(it, "nmId", "")
        second == Get(it, "nmld", "")
        nm_id == IF first # "" THEN first ELSE second
        review_text == Get(it, "text", << >>)
        word_count == count_words_split(review_text)
        product_valuation == Get(it, "productValuation", DefaultValuation)
        color == Get(it, "color", "")
        answer == Get(it, "answer", "")
    IN  IF nm_id = "" \/ review_text = << >> THEN NoRecord
        ELSE IF word_count <= WordThreshold THEN NoRecord
        ELSE [nm_id |-> nm_id,
              product_valuation |-> IF product_valuation # 0 THEN product_valuation
                                    ELSE DefaultValuation,
              color |-> IF color # "" THEN Truncate(color, 3) ELSE "",
              review_text |-> review_text,
              answer |-> answer,
              word_count |-> word_count,
              has_answer |-> answer # "",
              text_length |-> Len(review_text)]

TrInit ==
    /\ lines = [f \in Files |-> << >>]
    /\ disk = NoCheckpoint
    /\ store = {}
    /\ run = 1
    /\ ProcessStart
    /\ SaveIdle
    /\ ParIdle
    /\ InsIdle
    /\ NestIdle
    /\ tr_pc = "call"
    /\ tr_loader \in {"loader", "optimized_loader"}
    /\ item \in Items
    /\ record = NoRecord

\* loader.py: main calls process_review_data for the item
CallProcessReviewData ==
    /\ tr_pc = "call"
    /\ tr_loader = "loader"
    /\ record' = process_review_data(item)
    /\ tr_pc' = "returned"
    /\ UNCHANGED <<tr_loader, item>>
    /\ UNCHANGED <<mainvars, savevars, parvars, insvars, nestvars>>

\* optimized_loader.py: a worker handles the item in process_chunk
CallProcessChunk ==
    /\ tr_pc = "call"
    /\ tr_loader = "optimized_loader"
    /\ record' = process_chunk_item(item)
    /\ tr_pc' = "returned"
    /\ UNCHANGED <<tr_loader, item>>
    /\ UNCHANGED <<mainvars, savevars, parvars, insvars, nestvars>>

TrNext == CallProcessReviewData \/ CallProcessChunk

SpecTransform == TrInit /\ [][TrNext]_vars

\* the item has a non-empty identifier under one of the two keys
HasId ==
    \/ "nmId" \in DOMAIN item /\ item.nmId # ""
    \/ "nmld" \in DOMAIN item /\ item.nmld # ""

\* the item has a non-empty text
HasText == "text" \in DOMAIN item /\ item.text # << >>

\* the number of white-space separated tokens of the text of the item
Tokens == RunsFrom(item.text, 1, Chars \ {" "})

\* C29: the transform returns no record when the identifier or the text is
\* absent or empty or the word count is at or below the threshold, and for
\* every other item a record whose word_count is the number of white-space
\* separated tokens of the text
C29_TransformFiltersAndCounts ==
    tr_pc = "returned" =>
        IF HasId /\ HasText /\ Tokens > WordThreshold
        THEN record # NoRecord /\ record.word_count = Tokens
        ELSE record = NoRecord

\* C30: in every record the transform emits, a color or an answer that the
\* item lacks is null, not the empty string, and a rating that the item
\* lacks is the default
C30_AbsentFieldsAreNull ==
    (tr_pc = "returned" /\ record # NoRecord) =>
        /\ "color" \notin DOMAIN item => record.color = None
        /\ "answer" \notin DOMAIN item => record.answer = None
        /\ "productValuation" \notin DOMAIN item
              => record.product_valuation = DefaultValuation

(***************************************************************************)
(* optimized_loader_nd.parse_product_item.  A JSON value is a number       *)
(* [num |-> n] or a string; the string of an identifier is a sequence of   *)
(* the characters "0", "7" (digits), "-" (the sign) and "x" (any other     *)
(* character), the other strings are plain.  Widths are scaled: 50 -> 2,   *)
(* 100 -> 3, 200 -> 4, 500 -> 5.                                           *)
(***************************************************************************)
\* characters of the longest identifier string
MaxIdLen == 2

IdChars == {"0", "7", "-", "x"}
Digits == {"0", "7"}
IdStrings == UNION {[1..n -> IdChars] : n \in 0..MaxIdLen}
IdValues == {[num |-> n] : n \in {0, 7}} \cup {[str |-> s] : s \in IdStrings}
\* item.get(key) of a key the item lacks
NoValue == [none |-> TRUE]

\* bool(v) of a JSON value or None
Truthy(v) == v \notin {NoValue, [num |-> 0], [str |-> << >>]}

\* a or b
Or(a, b) == IF Truthy(a) THEN a ELSE b

\* the number a sequence of digits denotes
RECURSIVE IntOfDigits(_)
IntOfDigits(d) ==
    IF d = << >> THEN 0
    ELSE 10 * IntOfDigits(SubSeq(d, 1, Len(d) - 1))
         + (IF d[Len(d)] = "7" THEN 7 ELSE 0)

\* str(v) of an identifier value
StrOfId(v) ==
    IF "str" \in DOMAIN v THEN v.str
    ELSE IF v.num = 0 THEN <<"0">> ELSE <<"7">>

\* a string without its leading sign
Unsigned(s) == IF s # << >> /\ s[1] = "-" THEN Tail(s) ELSE s

\* int(v) raises ValueError: the string is not a sign and digits
IntRaises(v) ==
    /\ "str" \in DOMAIN v
    /\ \/ Unsigned(v.str) = << >>
       \/ \E i \in DOMAIN Unsigned(v.str) : Unsigned(v.str)[i] \notin Digits

\* int(v) where it does not raise
PyInt(v) ==
    IF "num" \in DOMAIN v THEN v.num
    ELSE IF v.str[1] = "-" THEN 0 - IntOfDigits(Tail(v.str))
    ELSE IntOfDigits(v.str)

\* re.sub(r'[^\d]', '', str(v))
Cleaned(v) == SelectSeq(StrOfId(v), LAMBDA c : c \in Digits)

\* lines 139-146: int(nm_id), or the integer of the digits, or 0
IntOrZero(v) ==
    IF ~IntRaises(v) THEN PyInt(v)
    ELSE IF Cleaned(v) # << >> THEN IntOfDigits(Cleaned(v)) ELSE 0

\* item.get(a) or item.get(b) or default, for the text fields
TextOr(it, a, b, default) ==
    IF a \in DOMAIN it /\ it[a] # "" THEN it[a]
    ELSE IF b \in DOMAIN it /\ it[b] # "" THEN it[b]
    ELSE default

\* as parse_product_item, but without the test for 0
parse_product_item_keeping_zero(it) ==
    LET imt_first == Get(it, "imt_id", NoValue)
        imt_id == IF imt_first = NoValue
                  THEN Or(Get(it, "imtId", NoValue), Get(it, "imtID", NoValue))
                  ELSE imt_first
        nm_first == Get(it, "nm_id", NoValue)
        nm_id == IF nm_first = NoValue
                 THEN Or(Get(it, "nmId", NoValue), Get(it, "nmID", NoValue))
                 ELSE nm_first
        nm_id_int == IntOrZero(nm_id)
        imt_id_int == IF imt_id = NoValue THEN [none |-> TRUE]
                      ELSE IF ~IntRaises(imt_id)
                      THEN [num |-> PyInt(imt_id)]
                      ELSE IF Cleaned(imt_id) # << >>
                      THEN [num |-> IntOfDigits(Cleaned(imt_id))]
                      ELSE [none |-> TRUE]
    IN  IF nm_id = NoValue THEN NoRecord
        ELSE [imt_id |-> imt_id_int,
              nm_id |-> nm_id_int,
              imt_name |-> Truncate(TextOr(it, "imt_name", "imtName", ""), 5),
              subj_name |-> Truncate(TextOr(it, "subj_name", "subjName", ""), 4),
              subj_root_name |->
                  Truncate(TextOr(it, "subj_root_name", "subjRootName", ""), 4),
              nm_colors_names |->
                  Truncate(TextOr(it, "nm_colors_names", "nmColorsNames", ""), 5),
              vendor_code |-> Truncate(TextOr(it, "vendor_code", "vendorCode", ""), 3),
              description |-> TextOr(it, "description", "description", ""),
              brand_name |-> Truncate(TextOr(it, "brand_name", "brandName", "NB"), 4)]

\* lines 121-184
parse_product_item(it) ==
    LET imt_first == Get(it, "imt_id", NoValue)
        imt_id == IF imt_first = NoValue
                  THEN Or(Get(it, "imtId", NoValue), Get(it, "imtID", NoValue))
                  ELSE imt_first
        nm_first == Get(it, "nm_id", NoValue)
        nm_id == IF nm_first = NoValue
                 THEN Or(Get(it, "nmId", NoValue), Get(it, "nmID", NoValue))
                 ELSE nm_first
        nm_id_int == IntOrZero(nm_id)
        imt_id_int == IF imt_id = NoValue THEN [none |-> TRUE]
                      ELSE IF ~IntRaises(imt_id)
                      THEN [num |-> PyInt(imt_id)]
                      ELSE IF Cleaned(imt_id) # << >>
                      THEN [num |-> IntOfDigits(Cleaned(imt_id))]
                      ELSE [none |-> TRUE]
    IN  IF nm_id = NoValue THEN NoRecord
        ELSE IF nm_id_int = 0 THEN NoRecord
        ELSE [imt_id |-> imt_id_int,
              nm_id |-> nm_id_int,
              imt_name |-> Truncate(TextOr(it, "imt_name", "imtName", ""), 5),
              subj_name |-> Truncate(TextOr(it, "subj_name", "subjName", ""), 4),
              subj_root_name |->
                  Truncate(TextOr(it, "subj_root_name", "subjRootName", ""), 4),
              nm_colors_names |->
                  Truncate(TextOr(it, "nm_colors_names", "nmColorsNames", ""), 5),
              vendor_code |-> Truncate(TextOr(it, "vendor_code", "vendorCode", ""), 3),
              description |-> TextOr(it, "description", "description", ""),
              brand_name |-> Truncate(TextOr(it, "brand_name", "brandName", "NB"), 4)]

IdKeys == {"imt_id", "nm_id", "nmId", "nmID"}
TextKeys == {"imt_name", "subjName", "subj_root_name", "nm_colors_names",
             "vendor_code", "description", "brand_name"}

\* the identifiers of a decoded line of the product files
IdItems ==
    {[k \in S |-> full[k]] :
        full \in [imt_id : {[num |-> 7], [str |-> <<"x">>]},
                  nm_id : IdValues,
                  nmId : {[num |-> 0], [num |-> 7], [str |-> << >>]},
                  nmID : {[num |-> 7], [str |-> <<"0", "7">>]}],
        S \in SUBSET IdKeys}

\* the text fields of a decoded line of the product files
TextItems ==
    {[k \in S |-> full[k]] :
        full \in [imt_name : {"abcdef"}, subjName : {"abcdef"},
                  subj_root_name : {"abcdef"}, nm_colors_names : {"abcdef"},
                  vendor_code : {"", "abcdef"}, description : {"abcdef"},
                  brand_name : {"abcdef"}],
        S \in SUBSET TextKeys}

\* the decoded lines of the product files
ProductItems == {ids @@ texts : ids \in IdItems, texts \in TextItems}

ProductInit ==
    /\ lines = [f \in Files |-> << >>]
    /\ disk = NoCheckpoint
    /\ store = {}
    /\ run = 1
    /\ ProcessStart
    /\ SaveIdle
    /\ ParIdle
    /\ InsIdle
    /\ NestIdle
    /\ tr_pc = "call"
    /\ tr_loader = "optimized_loader_nd"
    /\ item \in ProductItems
    /\ record = NoRecord

\* process_chunk, lines 187-194, calls parse_product_item for the item
CallParseProductItem ==
    /\ tr_pc = "call"
    /\ tr_loader = "optimized_loader_nd"
    /\ record' = parse_product_item(item)
    /\ tr_pc' = "returned"
    /\ UNCHANGED <<tr_loader, item>>
    /\ UNCHANGED <<mainvars, savevars, parvars, insvars, nestvars>>

SpecProduct == ProductInit /\ [][CallParseProductItem]_vars

\* the aliases of the identifier the item has
IdAliases == {"nm_id", "nmId", "nmID"} \cap DOMAIN item

\* the value of the identifier, for an item that has it under one alias
TheId == item[CHOOSE k \in IdAliases : TRUE]

\* C31: parse_product_item returns no record when the identifier is absent
\* under every alias or has no digit to parse after the other characters
\* are stripped; otherwise the nm_id of the record is the integer of its
\* digits.  (Stated for the items with the identifier under at most one
\* alias, where the order of the aliases plays no part.)
C31_IdentifierParsed ==
    (tr_pc = "returned" /\ Cardinality(IdAliases) <= 1) =>
        IF IdAliases = {} \/ Cleaned(TheId) = << >>
        THEN record = NoRecord
        ELSE record # NoRecord /\ record.nm_id = IntOfDigits(Cleaned(TheId))

\* the identifier the aliases give, taken in their order: nm_id when the
\* item has it, else nmId unless it is empty or 0, else nmID
ChosenId ==
    IF "nm_id" \in DOMAIN item THEN item.nm_id
    ELSE IF "nmId" \in DOMAIN item /\ item.nmId \notin {[num |-> 0], [str |-> << >>]}
    THEN item.nmId
    ELSE IF "nmID" \in DOMAIN item THEN item.nmID
    ELSE NoValue

\* the digits of a string, in their order
RECURSIVE DigitsOf(_)
DigitsOf(s) ==
    IF s = << >> THEN << >>
    ELSE (IF Head(s) \in Digits THEN <<Head(s)>> ELSE << >>) \o DigitsOf(Tail(s))

\* the integer of the identifier: the number itself, the signed number a
\* string of a sign and digits denotes, else the number of its digits; 0 when
\* it has no digit
IntegerOf(v) ==
    IF "num" \in DOMAIN v THEN v.num
    ELSE LET d == DigitsOf(v.str)
             n == IntOfDigits(d)
         IN  IF d = << >> THEN 0
             ELSE IF Len(v.str) = Len(d) + 1 /\ v.str[1] = "-" THEN 0 - n
             ELSE n

\* C31 (amended): parse_product_item returns no record when the aliases give
\* no identifier, or the identifier has no digit, or its integer is 0;
\* otherwise the nm_id of the record is that integer
C31_IdentifierParsedNonZero ==
    tr_pc = "returned" =>
        IF ChosenId = NoValue \/ IntegerOf(ChosenId) = 0
        THEN record = NoRecord
        ELSE record # NoRecord /\ record.nm_id = IntegerOf(ChosenId)

\* a record from an identifier with characters to strip, found under the
\* last alias after an empty one
C31_Witness ==
    /\ tr_pc = "returned"
    /\ "nm_id" \notin DOMAIN item
    /\ "nmId" \in DOMAIN item
    /\ "nmID" \in DOMAIN item
    /\ item.nmID = [str |-> <<"0", "7">>]
    /\ record # NoRecord
    /\ record.nm_id = 7

\* database.py lines 30-36 and 49-58: the widths of the String columns of
\* wb_reviews and of wb_products (scaled)
ReviewWidth == [nm_id |-> 2, color |-> 3]
ProductWidth == [imt_name |-> 5, subj_name |-> 4, subj_root_name |-> 4,
                 nm_colors_names |-> 5, vendor_code |-> 3, brand_name |-> 4]

\* the widths of the table the records of the loader go to
ColumnWidth == IF tr_loader = "optimized_loader_nd" THEN ProductWidth ELSE ReviewWidth

\* C32: every bounded-width text field of an emitted record is no longer
\* than the width of the column it is inserted into
C32_FieldsFitColumns ==
    (tr_pc = "returned" /\ record # NoRecord) =>
        \A c \in DOMAIN ColumnWidth : Len(record[c]) <= ColumnWidth[c]

(***************************************************************************)
(* Resuming with a cursor at or behind the end of the file                 *)
(***************************************************************************)
\* the size of file f in bytes
FileSize(f) == BytesBefore(f, NumLines(f))

\* checkpoints of the first file whose byte position is its size or beyond
CheckpointsAtEnd ==
    {save_checkpoint(JSON_FILES[1], b, NumLines(JSON_FILES[1]), 0, "auto_save") :
        b \in FileSize(JSON_FILES[1])..(FileSize(JSON_FILES[1]) + 1)}

InitAtEnd ==
    /\ lines \in FileSets
    /\ disk \in CheckpointsAtEnd
    /\ store = {}
    /\ run = 1
    /\ ProcessStart
    /\ SaveIdle
    /\ AuxIdle

SpecAtEnd == InitAtEnd /\ [][Next]_vars

\* the invocation that resumes the first file from the checkpoint
ResumingFirstFile == run = 1 /\ file_index = 1 /\ pc \notin {"start", "call"}

\* C33: when the saved cursor is at or beyond the end of the file, the
\* resumed call reads no line of the file, finds the file at its end, does
\* not halt and inserts no record of the file
C33_ResumeAtEndReadsNothing ==
    run = 1 =>
        /\ \A i \in 0..(NumLines(JSON_FILES[1]) - 1) : <<JSON_FILES[1], i>> \notin store
        /\ ResumingFirstFile =>
              /\ parsed = {}
              /\ pc = "read" => nxt = NumLines(CurFile)
              /\ pc \notin {"check", "count", "parse"}
              /\ outcome[CurFile] \notin {"halted"}

\* the resumed call of a file with a record returned at the end of the file
C33_Witness ==
    /\ run = 1
    /\ file_index = 1
    /\ pc = "returned"
    /\ outcome[JSON_FILES[1]] = "completed"
    /\ start_byte > 0
    /\ \E i \in 0..(NumLines(JSON_FILES[1]) - 1) : Line(JSON_FILES[1], i) = "ok"
    /\ store = {}

(***************************************************************************)
(* A line that does not decode                                             *)
(***************************************************************************)
\* the line in hand between the count and the decoding does not decode
BadLineInHand == pc \in {"count", "parse"} /\ Line(CurFile, nxt - 1) = "bad"

\* the step ends the handling of the line in hand (a signal that ends the
\* process in the middle of it is another step)
LineHandled == pc = "parse" /\ pc' # pc /\ pc' # "atexit"

\* C34: a line that fails to decode is counted in total_read when it is
\* consumed, before any transformation; decoding it adds nothing to the
\* chunk, the batch, the store or the counters; and the loop goes on to read
\* the line after it
C34_BadLineSkippedLocally ==
    [][/\ (BadLineInHand /\ pc = "count" /\ pc' # pc /\ pc' # "atexit") =>
              /\ pc' = "parse"
              /\ stats'.total_read = stats.total_read + 1
              /\ stats'.total_processed = stats.total_processed
              /\ UNCHANGED <<chunk, insert_batch, store, nxt>>
       /\ (BadLineInHand /\ LineHandled) =>
              /\ pc' = "read"
              /\ UNCHANGED <<chunk, insert_batch, store, stats, flushes, nxt, outcome>>
      ]_vars

\* a line was skipped as undecodable and the line after it has been read
C34_Witness ==
    /\ pc = "check"
    /\ nxt >= 2
    /\ Line(CurFile, nxt - 2) = "bad"
    /\ (nxt - 2) \in parsed
    /\ stats.total_read >= 1

(***************************************************************************)
(* Termination of one call of process_file_with_checkpoint                 *)
(***************************************************************************)
\* the checkpoints of the first file at the end of one of its lines
CheckpointsInFirstFile ==
    {save_checkpoint(JSON_FILES[1], BytesBefore(JSON_FILES[1], n), n, 0, "auto_save") :
        n \in 1..NumLines(JSON_FILES[1])}

\* one invocation of the program, started without a checkpoint or with one
\* that an earlier invocation left in the first file
InitInvocation ==
    /\ lines \in FileSets
    /\ disk \in {NoCheckpoint} \cup CheckpointsInFirstFile
    /\ store = {}
    /\ run = 1
    /\ ProcessStart
    /\ SaveIdle
    /\ AuxIdle

\* the steps of one invocation: those of Next but the restart by the operator
InvocationNext ==
    \/ Startup
    \/ CallProcessFile
    \/ OpenFile
    \/ OpenFails
    \/ ReadLine
    \/ ReadFails
    \/ CheckStops
    \/ CountLine
    \/ ParseLine
    \/ EndOfFile
    \/ AfterFile
    \/ MainExcept
    \/ Finish
    \/ signal_handler
    \/ atexit_handler

\* the interpreter goes on running the one thread of the program while it
\* has a step to take
SpecFair == InitInvocation /\ [][InvocationNext]_vars /\ WF_vars(InvocationNext)

TerminalStates == {"completed", "interrupted", "halted", "failed"}

\* the call for the current file has ended: by return, by the exception it
\* re-raises, or by the exit of the process in the middle of it
CallEnded ==
    /\ pc \in {"returned", "raised", "atexit"}
    /\ outcome[CurFile] \in TerminalStates

\* C35: a call of the per-file pipeline, once it has opened its file, ends
\* in one of completed, interrupted, halted or failed; while it streams it
\* has no terminal state; the terminal state of a file does not change
\* afterwards; and a line is read or a batch flushed only by a call that
\* has no terminal state yet
C35_TerminatesOnce ==
    /\ [](InFile => outcome[CurFile] = "none")
    /\ [][/\ \A f \in Files :
                (outcome[f] # "none" /\ run' = run) => outcome'[f] = outcome[f]
          /\ (nxt' > nxt \/ store' # store \/ Len(flushes') > Len(flushes)) =>
                (InFile /\ outcome[CurFile] = "none")
         ]_vars
    /\ (pc = "open") ~> CallEnded

\* every way for a call to end happens, the completed one after a flush
C35_Witness ==
    /\ pc = "returned"
    /\ outcome[CurFile] = "completed"
    /\ Len(flushes) >= 1
    /\ file_index = 2
    /\ outcome[JSON_FILES[1]] = "failed"

(***************************************************************************)
(* The parallel pipeline: independence of the order of completion          *)
(***************************************************************************)
\* the lines of file f that decode and that the transform keeps
Kept(f) == {i \in 0..(NumLines(f) - 1) : Line(f, i) = "ok"}

\* two chunks were collected in the other order than they were submitted in
CollectedOutOfOrder ==
    \E c, d \in DOMAIN future_to_chunk :
        /\ c < d
        /\ future_to_chunk[d] = "collected"
        /\ future_to_chunk[c] # "collected"

\* C36: when the call for a file has ended, the records handed to
\* fast_insert_batch are the kept records of the file, each handed once, and
\* total_processed is their number: both are functions of the file alone,
\* whatever the order in which the chunks completed and were collected
C36_HandedRecordsIndependentOfOrder ==
    par_pc = "done" =>
        /\ handed = SetToBag(Kept(ParFile))
        /\ file_stats.total_processed = Cardinality(Kept(ParFile))

\* every chunk of a file of three chunks is collected, the last one first, and
\* the batch handed to the insert function holds the records in that order
C36_Witness ==
    /\ par_pc = "insert"
    /\ Len(future_to_chunk) = 3
    /\ Outstanding = {}
    /\ Len(insert_batch_data) >= 2
    /\ insert_batch_data[1] > insert_batch_data[Len(insert_batch_data)]
    /\ handed = SetToBag(Kept(ParFile))
    /\ file_stats.total_processed = Cardinality(Kept(ParFile))

(***************************************************************************)
(* save_checkpoint through the file system, with the signal handler        *)
(* running its own save_checkpoint in the middle of the main loop's        *)
(***************************************************************************)
\* the JSON text of checkpoint c, in the pieces json.dump writes it in
Text(c) == [j \in 1..JsonPieces |-> [of |-> c, part |-> j]]

\* the content of a file after a write of the pieces at offset 0
WriteAt0(content, pieces) ==
    [j \in 1..(IF Len(content) > Len(pieces) THEN Len(content) ELSE Len(pieces)) |->
        IF j <= Len(pieces) THEN pieces[j] ELSE content[j]]

\* what json.dump has put into the buffer of the file object of caller w
Buffer(w) == SubSeq(Text(saves[w].checkpoint), 1, saves[w].buffered)

\* the content of the file path p names, empty when it names none
Content(p) == IF dir[p] = 0 THEN << >> ELSE inodes[dir[p]]

\* checkpoint.json and the progress in memory as a call finds them
AtCall == [content |-> Content(checkpoint_file), progress |-> current_progress]

\* the caller is inside save_checkpoint
Saving(w) == saves[w].pc \in {"open", "dump", "close", "replace"}

\* the main loop runs while no signal has arrived; a handler runs to its end
\* once it has started
Turn(w) == w = "main" => saves["handler"].pc = "none"

\* a checkpoint file of an earlier invocation may exist
NestInit ==
    /\ lines = [f \in Files |-> << >>]
    /\ disk = NoCheckpoint
    /\ store = {}
    /\ run = 1
    /\ ProcessStart
    /\ SaveIdle
    /\ ParIdle
    /\ InsIdle
    /\ TrIdle
    /\ saves = [w \in Savers |-> NoSave]
    /\ current_progress = InitialProgress
    /\ \/ /\ inodes = << >>
          /\ dir = [p \in {checkpoint_file, temp_file} |-> 0]
       \/ /\ inodes = <<Text(save_checkpoint(OtherFile, 1, 1, 0, "error"))>>
          /\ dir = [p \in {checkpoint_file, temp_file} |->
                       IF p = checkpoint_file THEN 1 ELSE 0]

\* optimized_loader_nd.py lines 363-372: the main loop calls save_checkpoint,
\* each time for a later line; checkpoint_manager.py lines 33-41
MainSaveBegin ==
    /\ saves["main"].pc \in {"none", "returned", "failed"}
    /\ Turn("main")
    /\ \E f \in Files :
       \E n \in (saves["main"].checkpoint.line_number + 1)..MaxLines :
            saves' = [saves EXCEPT !["main"] =
                         [pc |-> "open",
                          checkpoint |-> save_checkpoint(f, n, n, 0, "auto_save"),
                          f |-> 0, buffered |-> 0, result |-> None,
                          previous |-> AtCall]]
    /\ UNCHANGED <<dir, inodes, current_progress>>
    /\ UNCHANGED <<mainvars, savevars, parvars, insvars, trvars>>

\* line 46: open(temp_file, 'w') creates the file or empties the one the
\* path names
SaveOpenFile(w) ==
    /\ saves[w].pc = "open"
    /\ Turn(w)
    /\ IF dir[temp_file] = 0
       THEN /\ inodes' = Append(inodes, << >>)
            /\ dir' = [dir EXCEPT ![temp_file] = Len(inodes) + 1]
       ELSE /\ inodes' = [inodes EXCEPT ![dir[temp_file]] = << >>]
            /\ UNCHANGED dir
    /\ saves' = [saves EXCEPT ![w].f = dir'[temp_file], ![w].buffered = 0,
                              ![w].pc = "dump"]
    /\ UNCHANGED current_progress
    /\ UNCHANGED <<mainvars, savevars, parvars, insvars, trvars>>

\* line 47: json.dump writes the next piece of the text; the text of a
\* checkpoint stays in the buffer of the file object until the file is closed
SaveDump(w) ==
    /\ saves[w].pc = "dump"
    /\ Turn(w)
    /\ saves' = [saves EXCEPT ![w].buffered = @ + 1,
                              ![w].pc = IF saves[w].buffered + 1 = JsonPieces
                                        THEN "close" ELSE "dump"]
    /\ UNCHANGED <<dir, inodes, current_progress>>
    /\ UNCHANGED <<mainvars, savevars, parvars, insvars, trvars>>

\* line 47, the end of the with statement: the buffer is written to the file
\* that was opened and the file is closed
SaveCloseFile(w) ==
    /\ saves[w].pc = "close"
    /\ Turn(w)
    /\ inodes' = [inodes EXCEPT ![saves[w].f] = WriteAt0(@, Buffer(w))]
    /\ saves' = [saves EXCEPT ![w].pc = "replace"]
    /\ UNCHANGED <<dir, current_progress>>
    /\ UNCHANGED <<mainvars, savevars, parvars, insvars, trvars>>

\* lines 50-63: os.replace or os.rename moves the temporary file over
\* checkpoint.json, current_progress is updated and True returned; with no
\* file under the temporary path the rename raises, and the except clause
\* (lines 67-70) returns False
SaveRename(w) ==
    /\ saves[w].pc = "replace"
    /\ Turn(w)
    /\ IF dir[temp_file] = 0
       THEN /\ saves' = [saves EXCEPT ![w].pc = "failed", ![w].result = "False"]
            /\ UNCHANGED <<dir, current_progress>>
       ELSE /\ dir' = [dir EXCEPT ![checkpoint_file] = dir[temp_file], ![temp_file] = 0]
            /\ current_progress' =
                   [file_path |-> saves[w].checkpoint.file_path,
                    byte_position |-> saves[w].checkpoint.byte_position,
                    line_number |-> saves[w].checkpoint.line_number,
                    inserted_count |-> saves[w].checkpoint.inserted_count]
            /\ saves' = [saves EXCEPT ![w].pc = "returned", ![w].result = "True"]
    /\ UNCHANGED inodes
    /\ UNCHANGED <<mainvars, savevars, parvars, insvars, trvars>>

\* as SaveRaises, but with the progress in memory updated before the file is
\* written
SaveRaisesAfterUpdate(w) ==
    /\ Saving(w)
    /\ Turn(w)
    /\ inodes' = IF saves[w].pc = "dump"
                 THEN [inodes EXCEPT ![saves[w].f] = WriteAt0(@, Buffer(w))]
                 ELSE inodes
    /\ saves' = [saves EXCEPT ![w].pc = "failed", ![w].result = "False"]
    /\ current_progress' = [file_path |-> saves[w].checkpoint.file_path,
                            byte_position |-> saves[w].checkpoint.byte_position,
                            line_number |-> saves[w].checkpoint.line_number,
                            inserted_count |-> saves[w].checkpoint.inserted_count]
    /\ UNCHANGED dir
    /\ UNCHANGED <<mainvars, savevars, parvars, insvars, trvars>>

\* lines 67-70: open, json.dump, the close or the rename raises an Exception
\* (the disk is full, the directory is read-only): the with statement closes
\* a file that is open, and False is returned
SaveRaises(w) ==
    /\ Saving(w)
    /\ Turn(w)
    /\ inodes' = IF saves[w].pc = "dump"
                 THEN [inodes EXCEPT ![saves[w].f] = WriteAt0(@, Buffer(w))]
                 ELSE inodes
    /\ saves' = [saves EXCEPT ![w].pc = "failed", ![w].result = "False"]
    /\ UNCHANGED <<dir, current_progress>>
    /\ UNCHANGED <<mainvars, savevars, parvars, insvars, trvars>>

\* optimized_loader_nd.py lines 64-76: a signal arrives between two bytecodes
\* of the main thread; signal_handler calls emergency_save_checkpoint, which
\* calls save_checkpoint with the progress mirror
SignalArrives ==
    /\ saves["handler"].pc = "none"
    /\ \E f \in Files, n \in 1..MaxLines :
            saves' = [saves EXCEPT !["handler"] =
                         [pc |-> "open",
                          checkpoint |-> save_checkpoint(f, n, n, 0, "user_interrupt"),
                          f |-> 0, buffered |-> 0, result |-> None,
                          previous |-> AtCall]]
    /\ UNCHANGED <<dir, inodes, current_progress>>
    /\ UNCHANGED <<mainvars, savevars, parvars, insvars, trvars>>

\* lines 78-83: sys.exit(0) in the handler; SystemExit leaves the main
\* thread's save_checkpoint, whose except clause does not catch it, through
\* the with statement, which closes the file and writes its buffer; then
\* atexit_handler (lines 86-89) saves the mirror once more
HandlerExits ==
    /\ saves["handler"].pc \in {"returned", "failed"}
    /\ LET closed == IF saves["main"].pc \in {"dump", "close"}
                     THEN [inodes EXCEPT ![saves["main"].f] =
                                            WriteAt0(@, Buffer("main"))]
                     ELSE inodes
       IN  /\ inodes' = closed
           /\ saves' = [saves EXCEPT
                  !["handler"].pc = "exited",
                  !["main"].pc = IF Saving("main") THEN "abandoned" ELSE @,
                  !["atexit"] =
                      [pc |-> "open",
                       checkpoint |-> [saves["handler"].checkpoint EXCEPT
                                          !.reason = "program_exit"],
                       f |-> 0, buffered |-> 0, result |-> None,
                       previous |-> [content |-> IF dir[checkpoint_file] = 0
                                                 THEN << >>
                                                 ELSE closed[dir[checkpoint_file]],
                                     progress |-> current_progress]]]
    /\ UNCHANGED <<dir, current_progress>>
    /\ UNCHANGED <<mainvars, savevars, parvars, insvars, trvars>>

NestNext ==
    \/ MainSaveBegin
    \/ \E w \in Savers : SaveOpenFile(w)
    \/ \E w \in Savers : SaveDump(w)
    \/ \E w \in Savers : SaveCloseFile(w)
    \/ \E w \in Savers : SaveRename(w)
    \/ \E w \in Savers : SaveRaises(w)
    \/ SignalArrives
    \/ HandlerExits

SpecNestedSave == NestInit /\ [][NestNext]_vars

\* the text is that of one checkpoint, whole
CompleteText(content) ==
    /\ Len(content) = JsonPieces
    /\ \A j \in 1..JsonPieces : content[j] = [of |-> content[1].of, part |-> j]

\* the signal handler's save_checkpoint started inside one of the main loop,
\* and both are over: the handler's has returned True, the main loop's was
\* left by the exit
HandlerSaveCutInAndBothOver ==
    /\ saves["main"].pc = "abandoned"
    /\ saves["handler"].pc = "exited"
    /\ saves["handler"].result = "True"

\* C37: when the signal handler's save_checkpoint has run inside one of the
\* main loop and both are over, checkpoint.json holds the whole text of one
\* checkpoint
C37_NestedSavesLeaveOneCheckpoint ==
    HandlerSaveCutInAndBothOver => CompleteText(Content(checkpoint_file))

(***************************************************************************)
(* The count an insert call returns                                        *)
(***************************************************************************)
\* C38: the number an insert call returns, which the caller adds to
\* total_inserted and writes into checkpoints as inserted_count, is at most
\* the number of records of the batch that the call committed to the table
C38_ReturnedCountWithinCommitted ==
    ins_pc = "returned" => ins_returned <= Cardinality(table)

(***************************************************************************)
(* A checkpoint of a file that is not configured                           *)
(***************************************************************************)
\* a call of process_file_with_checkpoint has received its arguments
CallStarted == pc \in {"open", "read", "check", "count", "parse"}

\* C39: with a checkpoint that names a file outside the configured list the
\* orchestrator starts at the first configured file, from byte 0 and line 0;
\* and no call gets a saved cursor but the call for the file that the
\* checkpoint names
C39_CursorOnlyForCheckpointFile ==
    /\ (FirstCall /\ checkpoint # NoCheckpoint /\ checkpoint.file_path \notin Files) =>
           /\ file_index = 1
           /\ start_byte = 0
           /\ start_line = 0
    /\ (CallStarted /\ (start_byte # 0 \/ start_line # 0)) =>
           /\ checkpoint # NoCheckpoint
           /\ checkpoint.file_path = CurFile

(***************************************************************************)
(* A save_checkpoint that fails                                            *)
(***************************************************************************)
\* the step in which the call of w returns False
ReturnsFalse(w) == saves[w].result # "False" /\ saves'[w].result = "False"

\* C40: when a call of save_checkpoint fails it returns False (it ends
\* with a result, no exception leaves it), checkpoint.json holds what it
\* held when the call began, and current_progress is what it was then
C40_FailedSaveChangesNothing ==
    [][\A w \in Savers :
          ReturnsFalse(w) =>
              /\ saves'[w].pc = "failed"
              /\ Content(checkpoint_file)' = saves[w].previous.content
              /\ current_progress' = saves[w].previous.progress
      ]_vars

\* a call failed in the middle of json.dump, after an earlier call had
\* succeeded: the temporary file holds a part of the new text, checkpoint.json
\* the text of the earlier checkpoint, and the progress in memory is that of
\* the earlier call
C40_Witness ==
    /\ saves["main"].result = "False"
    /\ saves["handler"].pc = "none"
    /\ CompleteText(Content(checkpoint_file))
    /\ Content(checkpoint_file)[1].of.reason = "auto_save"
    /\ Content(temp_file) # << >>
    /\ ~CompleteText(Content(temp_file))
    /\ current_progress.line_number = Content(checkpoint_file)[1].of.line_number
    /\ current_progress.line_number < saves["main"].checkpoint.line_number

====
